---- MODULE Spec2Model ----
(***************************************************************************)
(* Recurrence expansion (lib/utils getRecurringDates) and period           *)
(* aggregation (hooks/useReportData, ReportModal, AnnualReportModal) of    *)
(* BudgetBuddy.                                                            *)
(*                                                                         *)
(* An instant (a JavaScript Date) is an integer number of hours since      *)
(* 1970-01-01T00:00Z.  The local zone is a fixed whole-hour offset tz      *)
(* (local wall clock = UTC + tz).  Every instant the code builds is a      *)
(* whole hour except endOfMonth / endOfYear (23:59:59.999), which are      *)
(* modelled as 23:00 of the same day: for whole-hour x, x <= 23:59:59.999  *)
(* iff x <= 23:00, and both have the same UTC and local calendar date.     *)
(***************************************************************************)
EXTENDS Integers, Sequences, FiniteSets

VARIABLES
    tz,          \* offset of the local zone from UTC, in hours
    now,         \* the instant new Date() returns
    pc,          \* "call" / "done", "input" / "report"
    startDate,   \* getRecurringDates: the anchor argument
    frequency,   \* getRecurringDates: the frequency argument
    endDate,     \* getRecurringDates: the window end argument
    result,      \* getRecurringDates: what the call returned
    expenses,    \* report: the expense records
    incomes,     \* report: the income records
    categories,  \* report: the ids of the categories
    range,       \* report: the date and endDate props
    scenario,    \* report: component, filterType, isMonthlyBudget, selection
    report,      \* report: what the component computed
    formatted,   \* formatDateForServer / formatDateForDisplay: the text returned
    renders,     \* useReportData: renders of the hook so far
    cursor,      \* getRecurringDates: the date variable of the running loop
    summary,     \* Dashboard: what MonthSummary computed
    selectedDate, \* Dashboard: the selectedDate state
    dateRange,   \* Calendar: the dateRange prop ({start, end})
    selectedDay  \* Calendar: the selectedDay state

expandVars == <<startDate, frequency, endDate, result>>
reportVars == <<expenses, incomes, categories, range, scenario, report>>
formatVars == <<formatted>>
memoVars == <<renders>>
loopVars == <<cursor>>
viewVars == <<summary, selectedDate, dateRange, selectedDay>>
vars == <<tz, now, pc, expandVars, reportVars, formatVars, memoVars, loopVars,
          viewVars>>

-----------------------------------------------------------------------------
(* Calendar arithmetic of the JavaScript Date object and date-fns.         *)

Min(a, b) == IF a <= b THEN a ELSE b

\* the single element of a singleton set: Only({e(x) : x \in {v}}) is e with
\* the value v computed once and bound to x (a const binding)
Only(S) == CHOOSE x \in S : TRUE

isLeapYear(y) == (y % 4 = 0 /\ y % 100 # 0) \/ y % 400 = 0

\* days in month m (1..12) of year y
DaysIn(y, m) ==
    IF m = 2 THEN (IF isLeapYear(y) THEN 29 ELSE 28)
    ELSE IF m \in {4, 6, 9, 11} THEN 30 ELSE 31

\* day number (days since 1970-01-01) of the civil date y-m-d
DayNum(y, m, d) ==
    LET yy  == IF m <= 2 THEN y - 1 ELSE y
        era == yy \div 400
        yoe == yy - era * 400
        mp  == (m + 9) % 12
        doy == (153 * mp + 2) \div 5 + d - 1
        doe == yoe * 365 + yoe \div 4 - yoe \div 100 + doy
    IN  era * 146097 + doe - 719468

\* civil date [y, m, d] of a day number
Civil(n) ==
    LET era == (n + 719468) \div 146097
        doe == (n + 719468) % 146097
        yearOfEra(e) == (e - e \div 1460 + e \div 36524 - e \div 146096) \div 365
        dayOfYear(e, yoe) == e - (365 * yoe + yoe \div 4 - yoe \div 100)
        civil(yoe, mp, doy) ==
            LET dd == doy - (153 * mp + 2) \div 5 + 1
                mm == IF mp < 10 THEN mp + 3 ELSE mp - 9
            IN  [y |-> yoe + era * 400 + (IF mm <= 2 THEN 1 ELSE 0),
                 m |-> mm, d |-> dd]
    IN  Only({ Only({ Only({ civil(yoe, mp, doy)
                             : mp \in {(5 * doy + 2) \div 153} })
                      : doy \in {dayOfYear(e, yoe)} })
               : e \in {doe}, yoe \in {yearOfEra(doe)} })

\* Date.UTC(y, m, d, h, 0, 0)
DateUTC(y, m, d, h) == DayNum(y, m, d) * 24 + h

\* new Date(y, m, d, h, 0, 0): local wall clock in zone z
DateLocal(z, y, m, d, h) == DayNum(y, m, d) * 24 + h - z

\* day numbers and clock hours of an instant, in UTC and in zone z
UTCDay(t)       == t \div 24
LocalDay(z, t)  == (t + z) \div 24
LocalHour(z, t) == (t + z) % 24

\* getUTCFullYear / getUTCMonth / getUTCDate
UTCCivil(t) == Civil(UTCDay(t))
\* getFullYear / getMonth / getDate
LocalCivil(z, t) == Civil(LocalDay(z, t))

getDate(z, t) == LocalCivil(z, t).d

getDaysInMonth(z, t) == Only({ DaysIn(c.y, c.m) : c \in {LocalCivil(z, t)} })

startOfMonth(z, t) ==
    Only({ DateLocal(z, c.y, c.m, 1, 0) : c \in {LocalCivil(z, t)} })

endOfMonth(z, t) ==
    Only({ DateLocal(z, c.y, c.m, DaysIn(c.y, c.m), 23)
           : c \in {LocalCivil(z, t)} })

\* date-fns addDays: setDate(getDate() + n) on the local wall clock
addDays(z, t, n) == t + 24 * n

\* date-fns addMonths: same local clock time, n months later, the day of the
\* month clamped to the length of the target month
addMonths(z, t, n) ==
    LET target(c, hour, k) ==
            LET ty == k \div 12
                tm == (k % 12) + 1
            IN  DateLocal(z, ty, tm, Min(c.d, DaysIn(ty, tm)), hour)
    IN  Only({ Only({ target(c, hour, k) : k \in {c.y * 12 + (c.m - 1) + n} })
               : c \in {LocalCivil(z, t)}, hour \in {LocalHour(z, t)} })

\* date-fns addYears(date, n) = addMonths(date, 12 n)
addYears(z, t, n) == addMonths(z, t, 12 * n)

\* parseISO of a calendar string "YYYY-MM-DD": local midnight of that day
parseISO(z, s) == DateLocal(z, s.y, s.m, s.d, 0)

-----------------------------------------------------------------------------
(* Values handed to the expander.                                          *)
(*   a date argument is absent (undefined / null / ""), invalid (an        *)
(*   unparseable string or an Invalid Date), a calendar string, or a Date  *)
(*   a frequency argument is undefined, null, a non-string, or a string    *)
(*   (a sequence of characters)                                            *)

Absent      == [kind |-> "absent"]
Invalid     == [kind |-> "invalid"]
Str(y, m, d) == [kind |-> "string", y |-> y, m |-> m, d |-> d]
DateObj(t)  == [kind |-> "Date", t |-> t]

FUndefined  == [kind |-> "undefined"]
FNull       == [kind |-> "null"]
FNumber     == [kind |-> "number"]
FStr(s)     == [kind |-> "string", s |-> s]

ONCE      == <<"O", "N", "C", "E">>
MONTHLY   == <<"M", "O", "N", "T", "H", "L", "Y">>
YEARLY    == <<"Y", "E", "A", "R", "L", "Y">>
BIWEEKLY  == <<"B", "I", "W", "E", "E", "K", "L", "Y">>
WEEKLY    == <<"W", "E", "E", "K", "L", "Y">>
DAILY     == <<"D", "A", "I", "L", "Y">>

Lower == <<"a", "b", "c", "d", "e", "f", "g", "h", "i", "j", "k", "l", "m",
           "n", "o", "p", "q", "r", "s", "t", "u", "v", "w", "x", "y", "z">>
Upper == <<"A", "B", "C", "D", "E", "F", "G", "H", "I", "J", "K", "L", "M",
           "N", "O", "P", "Q", "R", "S", "T", "U", "V", "W", "X", "Y", "Z">>

upperChar(c) ==
    IF \E i \in 1..26 : Lower[i] = c
    THEN Upper[CHOOSE i \in 1..26 : Lower[i] = c]
    ELSE c

\* a toUpperCase that leaves the string as written
toUpperCaseAsWritten(s) == s

\* String.prototype.toUpperCase
toUpperCase(s) == [i \in 1..Len(s) |-> upperChar(s[i])]

-----------------------------------------------------------------------------
(* lib/utils: ensureValidDate and getRecurringDates.                       *)
(* z is the local zone offset, n the instant new Date() returns.           *)

\* ensureValidDate(date, fallback = new Date())
ensureValidDate(z, n, date) ==
    IF date.kind = "absent" THEN n
    ELSE IF date.kind = "invalid" THEN n
    ELSE LET parsedDate == IF date.kind = "string" THEN parseISO(z, date)
                           ELSE date.t
         IN  Only({ DateUTC(c.y, c.m, c.d, 12) : c \in {UTCCivil(parsedDate)} })

\* default value of the endDate parameter: new Date(2030, 11, 31)
DefaultEndDate(z) == DateObj(DateLocal(z, 2030, 12, 31, 0))

\* merge of two ascending sequences, the elements of a first among equals
RECURSIVE merge(_, _)
merge(a, b) ==
    IF a = <<>> THEN b
    ELSE IF b = <<>> THEN a
    ELSE IF a[Len(a)] <= b[1] THEN a \o b
    ELSE IF a[1] <= b[1] THEN <<a[1]>> \o merge(Tail(a), b)
    ELSE <<b[1]>> \o merge(a, Tail(b))

\* the sort with the comparator turned round (b - a): the dates, which the
\* loops push in ascending order, come out latest first
sortByTimeDescending(s) == [i \in 1..Len(s) |-> s[Len(s) + 1 - i]]

\* dates.sort((a, b) => a.getTime() - b.getTime()): a stable ascending sort
RECURSIVE sortByTime(_)
sortByTime(s) ==
    IF Len(s) <= 1 THEN s
    ELSE Only({ merge(a, b)
                : a \in {sortByTime(SubSeq(s, 1, Len(s) \div 2))},
                  b \in {sortByTime(SubSeq(s, Len(s) \div 2 + 1, Len(s)))} })

\* the DAILY / WEEKLY / BIWEEKLY loops
\*   while (d <= end) { dates.push(d); d = addDays(d, n); }
\* the k-th date pushed is the start moved on by n days k-1 times
daysLoop(z, d, end, n) ==
    IF d <= end
    THEN [k \in 1..((end - d) \div (24 * n) + 1) |-> addDays(z, d, n * (k - 1))]
    ELSE <<>>

\* the MONTHLY loop
\*   while (monthlyDate <= end) { ...; monthlyDate = addMonths(monthlyDate, 1); }
\* monthlyDate starts on the first of a month, so after k steps it is
\* addMonths(first, k); the loop body runs for the k with addMonths(first, k)
\* <= end (a month has at least 28 days, which bounds k)
monthlyLoop(z, first, dayOfMonth, start, end) ==
    LET span  == IF first <= end THEN (end - first) \div (24 * 28) + 1 ELSE 0
        steps == Cardinality({k \in 0..span : addMonths(z, first, k) <= end})
        recurring(monthlyDate) ==
            LET daysInMonth == getDaysInMonth(z, monthlyDate)
                actualDay   == Min(dayOfMonth, daysInMonth)
            IN  Only({ DateLocal(z, c.y, c.m, actualDay, 12)
                       : c \in {LocalCivil(z, monthlyDate)} })
        candidate(k) ==
            Only({ recurring(monthlyDate) : monthlyDate \in {addMonths(z, first, k)} })
        pushed(recurringDate) == recurringDate >= start /\ recurringDate <= end
    IN  IF first <= end
        THEN Only({ SelectSeq([k \in 1..n |-> candidate(k - 1)], pushed)
                    : n \in {steps} })
        ELSE <<>>

\* the YEARLY loop
RECURSIVE yearlyLoop(_, _, _)
yearlyLoop(z, yearlyDate, end) ==
    IF yearlyDate <= end
    THEN Only({ <<yearlyDate>> \o yearlyLoop(z, next, end)
                : next \in {addYears(z, yearlyDate, 1)} })
    ELSE <<>>

\* the switch over frequency.toUpperCase()
expandSwitch(z, f, start, end) ==
    IF f = DAILY THEN daysLoop(z, start, end, 1)
    ELSE IF f = WEEKLY THEN daysLoop(z, start, end, 7)
    ELSE IF f = BIWEEKLY THEN daysLoop(z, start, end, 14)
    ELSE IF f = MONTHLY
         THEN Only({ monthlyLoop(z, first, dayOfMonth, start, end)
                     : first \in {startOfMonth(z, start)},
                       dayOfMonth \in {getDate(z, start)} })
    ELSE IF f = YEARLY THEN yearlyLoop(z, start, end)
    ELSE <<start>>

\* the body of the try block: the dates returned, or the exception raised
\* (frequency.toUpperCase() on null or on a non-string is a TypeError; an
\* undefined frequency takes the parameter default 'ONCE')
getRecurringDatesTry(z, n, sd, freq, ed) ==
    LET expand(start, end) ==
            IF freq.kind \in {"null", "number"}
            THEN [threw |-> TRUE, dates |-> <<>>]
            ELSE Only({ [threw |-> FALSE,
                         dates |-> sortByTime(expandSwitch(z, f, start, end))]
                        : f \in {toUpperCase(IF freq.kind = "undefined"
                                             THEN ONCE ELSE freq.s)} })
    IN  Only({ expand(start, end)
               : start \in {ensureValidDate(z, n, sd)},
                 end \in {ensureValidDate(z, n, IF ed.kind = "absent"
                                                THEN DefaultEndDate(z) ELSE ed)} })

\* getRecurringDates without its catch block
getRecurringDatesNoCatch(z, n, sd, freq, ed) ==
    getRecurringDatesTry(z, n, sd, freq, ed)

\* getRecurringDates: try { ... } catch (error) { return []; }
getRecurringDates(z, n, sd, freq, ed) ==
    Only({ IF r.threw THEN [threw |-> FALSE, dates |-> <<>>] ELSE r
           : r \in {getRecurringDatesTry(z, n, sd, freq, ed)} })

\* date-fns format(date, pattern): the local calendar date of the instant,
\* written after the pattern
format(z, t, pattern) ==
    Only({ [pattern |-> pattern, y |-> c.y, m |-> c.m, d |-> c.d]
           : c \in {LocalCivil(z, t)} })

\* date-fns-tz toZonedTime(date, zone): the Date whose local clock shows the
\* wall clock of the zone with offset zone at the instant t
toZonedTime(z, t, zone) == t + (zone - z)

\* formatDateForServer(date)
formatDateForServer(z, n, date) ==
    format(z, ensureValidDate(z, n, date), "yyyy-MM-dd")

\* formatDateForDisplay(date); userTimeZone is the local zone
formatDateForDisplay(z, n, date) ==
    LET userTimeZone == z
    IN  format(z, toZonedTime(z, ensureValidDate(z, n, date), userTimeZone),
               "MMM dd, yyyy")

-----------------------------------------------------------------------------
(* lib/queryClient: the first copy of ensureValidDate / getRecurringDates. *)

ensureValidDateQC(z, n, date) ==
    IF date.kind = "absent" THEN n
    ELSE IF date.kind = "invalid" THEN n
    ELSE LET parsedDate == IF date.kind = "string" THEN parseISO(z, date)
                           ELSE date.t
         IN  Only({ DateUTC(c.y, c.m, c.d, 12) : c \in {UTCCivil(parsedDate)} })

\* the switch over normalizedFrequency: no DAILY and no WEEKLY case; the
\* tests currentDate >= start of the BIWEEKLY and YEARLY loops always hold
expandSwitchQC(z, f, start, end) ==
    LET fromStart(d) == d >= start
    IN  IF f = BIWEEKLY THEN SelectSeq(daysLoop(z, start, end, 14), fromStart)
        ELSE IF f = MONTHLY
             THEN Only({ monthlyLoop(z, first, dayOfMonth, start, end)
                         : first \in {startOfMonth(z, start)},
                           dayOfMonth \in {getDate(z, start)} })
        ELSE IF f = YEARLY THEN SelectSeq(yearlyLoop(z, start, end), fromStart)
        ELSE <<start>>

\* the body of the try block; if (!frequency) frequency = 'ONCE' covers
\* undefined and null, toUpperCase of a non-string raises
getRecurringDatesQCTry(z, n, sd, freq, ed) ==
    LET expand(start, end) ==
            IF freq.kind = "number"
            THEN [threw |-> TRUE, dates |-> <<>>]
            ELSE Only({ [threw |-> FALSE,
                         dates |-> sortByTime(expandSwitchQC(z, f, start, end))]
                        : f \in {toUpperCase(IF freq.kind \in {"undefined", "null"}
                                             THEN ONCE ELSE freq.s)} })
    IN  Only({ expand(start, end)
               : start \in {ensureValidDateQC(z, n, sd)},
                 end \in {ensureValidDateQC(z, n, IF ed.kind = "absent"
                                                  THEN DefaultEndDate(z) ELSE ed)} })

getRecurringDatesQC(z, n, sd, freq, ed) ==
    Only({ IF r.threw THEN [threw |-> FALSE, dates |-> <<>>] ELSE r
           : r \in {getRecurringDatesQCTry(z, n, sd, freq, ed)} })

-----------------------------------------------------------------------------
(* hooks/useReportData (the report modal of pages/Reports.tsx runs the     *)
(* same computation) and components/AnnualReportModal.                     *)
(* A record is [id, date, amount, frequency, categoryId]; amount is in     *)
(* integer cents.                                                          *)

startOfYear(z, t) == DateLocal(z, LocalCivil(z, t).y, 1, 1, 0)
endOfYear(z, t)   == DateLocal(z, LocalCivil(z, t).y, 12, 31, 23)

\* date-fns isSameMonth: same local year and month
isSameMonth(z, a, b) ==
    \A ca \in {LocalCivil(z, a)}, cb \in {LocalCivil(z, b)} :
        ca.y = cb.y /\ ca.m = cb.m

\* date-fns (v4) isWithinInterval: the two ends are put in order first
isWithinInterval(d, interval) ==
    LET lo == Min(interval.start, interval.end)
        hi == IF interval.start <= interval.end THEN interval.end
              ELSE interval.start
    IN  lo <= d /\ d <= hi

isBefore(a, b) == a < b

\* the report's own ensureValidDate: the parsed date, or now
ensureValidDateReport(z, n, date) ==
    IF date.kind = "absent" THEN n
    ELSE IF date.kind = "invalid" THEN n
    ELSE IF date.kind = "string" THEN parseISO(z, date)
    ELSE date.t

\* the interval as given, whatever the months of its ends
reportIntervalAsGiven(z, n, date, ed) ==
    [start |-> ensureValidDateReport(z, n, date),
     end |-> ensureValidDateReport(z, n, ed)]

\* the reporting interval of useReportData / ReportModal
reportInterval(z, n, date, ed) ==
    Only({ IF isSameMonth(z, sDate, endingDate)
           THEN [start |-> startOfMonth(z, sDate), end |-> endOfMonth(z, sDate)]
           ELSE [start |-> sDate, end |-> endingDate]
           : sDate \in {ensureValidDateReport(z, n, date)},
             endingDate \in {ensureValidDateReport(z, n, ed)} })

\* a reduce that starts from 1
RECURSIVE sumFromOne(_)
sumFromOne(s) == IF s = <<>> THEN 1 ELSE s[1] + sumFromOne(Tail(s))

\* array.reduce((sum, x) => sum + f(x), 0)
RECURSIVE sum(_)
sum(s) == IF s = <<>> THEN 0 ELSE s[1] + sum(Tail(s))


\* getRecurringDates(...).filter(isWithinInterval).map({date, isPending, amount})
occurrences(z, n, rec, interval, generationDate) ==
    LET anchor   == ensureValidDateReport(z, n, rec.date)
        expanded == getRecurringDates(z, n, DateObj(anchor), rec.frequency,
                                      DateObj(interval.end)).dates
        inside(d) == isWithinInterval(d, interval)
    IN  Only({ [i \in 1..Len(kept) |->
                   [date |-> kept[i],
                    isPending |-> ~isBefore(kept[i], generationDate),
                    amount |-> rec.amount]]
               : kept \in {SelectSeq(expanded, inside)} })

incurredPart(o) == IF o.isPending THEN 0 ELSE o.amount

\* pendingPart counting every occurrence as pending
pendingPartAll(o) == o.amount

pendingPart(o)  == IF o.isPending THEN o.amount ELSE 0

\* the body of incomes.map / expenses.map
processRecord(z, n, rec, interval, generationDate) ==
    LET item(ds, incurredAmount, pendingAmount) ==
            [id |-> rec.id, categoryId |-> rec.categoryId, amount |-> rec.amount,
             dates |-> ds,
             incurredAmount |-> incurredAmount,
             pendingAmount |-> pendingAmount,
             totalAmount |-> incurredAmount + pendingAmount]
    IN  Only({ Only({ item(ds, incurredAmount, pendingAmount)
                      : incurredAmount \in
                            {sum([i \in 1..Len(ds) |-> incurredPart(ds[i])])},
                        pendingAmount \in
                            {sum([i \in 1..Len(ds) |-> pendingPart(ds[i])])} })
               : ds \in {occurrences(z, n, rec, interval, generationDate)} })

\* hasDates keeping every record
hasDatesOrNot(r) == TRUE

hasDates(r) == Len(r.dates) > 0

\* processedIncomes
processIncomes(z, n, incs, interval, generationDate, filterType, isMonthlyBudget) ==
    IF isMonthlyBudget \/ filterType = "all-incomes"
    THEN SelectSeq([i \in 1..Len(incs) |->
                      processRecord(z, n, incs[i], interval, generationDate)],
                   hasDates)
    ELSE <<>>

\* processedExpenses
processExpenses(z, n, exps, interval, generationDate, filterType, selectedExpenseId, selectedCategoryId) ==
    LET wanted(e) ==
            IF filterType = "single-expense" THEN e.id = selectedExpenseId
            ELSE IF filterType = "single-category"
                 THEN e.categoryId = selectedCategoryId
            ELSE TRUE
    IN  Only({ SelectSeq([i \in 1..Len(chosen) |->
                             processRecord(z, n, chosen[i], interval,
                                           generationDate)],
                         hasDates)
               : chosen \in {SelectSeq(exps, wanted)} })

incurredOf(r) == r.incurredAmount
pendingOf(r)  == r.pendingAmount
totalOf(r)    == r.totalAmount

\* sortGroups losing a group whose total ties with another one
RECURSIVE sortGroupsStrict(_)
sortGroupsStrict(g) ==
    IF g = <<>> THEN <<>>
    ELSE LET x == g[Len(g)]
             ahead(h) == h.totalAmount > x.totalAmount
             behind(h) == h.totalAmount < x.totalAmount
         IN  Only({ SelectSeq(rest, ahead) \o <<x>> \o SelectSeq(rest, behind)
                    : rest \in {sortGroupsStrict(SubSeq(g, 1, Len(g) - 1))} })

\* groups.sort((a, b) => b.totalAmount - a.totalAmount): stable, descending
RECURSIVE sortGroups(_)
sortGroups(g) ==
    IF g = <<>> THEN <<>>
    ELSE LET x == g[Len(g)]
             ahead(h) == h.totalAmount >= x.totalAmount
             behind(h) == h.totalAmount < x.totalAmount
         IN  Only({ SelectSeq(rest, ahead) \o <<x>> \o SelectSeq(rest, behind)
                    : rest \in {sortGroups(SubSeq(g, 1, Len(g) - 1))} })

\* a filter that keeps every group
hasExpensesOrNot(g) == TRUE

\* .filter(group => group.expenses.length > 0)
hasExpenses(g) == Len(g.expenses) > 0

\* groupedExpenses (groupExpensesByCategory in the report modal)
groupExpensesByCategory(processed, cats, filterType) ==
    IF filterType = "all-categories"
    THEN LET group(c) ==
                 LET inCategory(e) == e.categoryId = c
                     sumOf(es, amountOf(_)) ==
                         sum([i \in 1..Len(es) |-> amountOf(es[i])])
                 IN  Only({ [category |-> c,
                             expenses |-> categoryExpenses,
                             totalAmount |-> sumOf(categoryExpenses, totalOf),
                             incurredAmount |-> sumOf(categoryExpenses, incurredOf),
                             pendingAmount |-> sumOf(categoryExpenses, pendingOf)]
                            : categoryExpenses \in
                                  {SelectSeq(processed, inCategory)} })
         IN  Only({ sortGroups(groups)
                    : groups \in {SelectSeq([i \in 1..Len(cats) |-> group(cats[i])],
                                            hasExpenses)} })
    ELSE <<>>

\* useReportData: everything the hook returns
useReportData(z, n, exps, incs, date, ed, filterType, selectedExpenseId, selectedCategoryId, isMonthlyBudget, cats) ==
    LET generationDate == n
        returned(pIncomes, pExpenses) ==
            LET tii == sum([i \in 1..Len(pIncomes) |-> incurredOf(pIncomes[i])])
                tpi == sum([i \in 1..Len(pIncomes) |-> pendingOf(pIncomes[i])])
                tie == sum([i \in 1..Len(pExpenses) |-> incurredOf(pExpenses[i])])
                tpe == sum([i \in 1..Len(pExpenses) |-> pendingOf(pExpenses[i])])
            IN  [processedIncomes |-> pIncomes,
                 processedExpenses |-> pExpenses,
                 totalIncurredIncomes |-> tii,
                 totalPendingIncomes |-> tpi,
                 totalIncomes |-> tii + tpi,
                 totalIncurredExpenses |-> tie,
                 totalPendingExpenses |-> tpe,
                 totalExpenses |-> tie + tpe,
                 groupedExpenses |-> groupExpensesByCategory(pExpenses, cats,
                                                             filterType)]
        processed(interval) ==
            Only({ returned(pIncomes, pExpenses)
                   : pIncomes \in
                         {processIncomes(z, n, incs, interval, generationDate,
                                         filterType, isMonthlyBudget)},
                     pExpenses \in
                         {processExpenses(z, n, exps, interval, generationDate,
                                          filterType, selectedExpenseId,
                                          selectedCategoryId)} })
    IN  Only({ processed(interval) : interval \in {reportInterval(z, n, date, ed)} })

\* AnnualReportModal: a record's retained occurrences within the year
annualOccurrences(z, n, rec, interval, generationDate) ==
    LET expanded == getRecurringDates(z, n, DateObj(parseISO(z, rec.date)),
                                      rec.frequency, DateObj(interval.end)).dates
        inside(d) == isWithinInterval(d, interval)
    IN  Only({ [i \in 1..Len(kept) |->
                   [isPending |-> ~isBefore(kept[i], generationDate),
                    amount |-> rec.amount]]
               : kept \in {SelectSeq(expanded, inside)} })

\* AnnualReportModal: one line item
annualItem(z, n, rec, interval, generationDate) ==
    LET item(incurredAmount, pendingAmount) ==
            [id |-> rec.id, frequency |-> rec.frequency,
             incurredAmount |-> incurredAmount,
             pendingAmount |-> pendingAmount,
             totalAmount |-> incurredAmount + pendingAmount]
    IN  Only({ Only({ item(incurredAmount, pendingAmount)
                      : incurredAmount \in
                            {sum([i \in 1..Len(ds) |-> incurredPart(ds[i])])},
                        pendingAmount \in
                            {sum([i \in 1..Len(ds) |-> pendingPart(ds[i])])} })
               : ds \in {annualOccurrences(z, n, rec, interval, generationDate)} })

\* isValid of the parsed record date (a missing date is not a valid Date)
validRecordDate(rec) == rec.date.kind = "string"

hasAmount(r) == r.incurredAmount > 0 \/ r.pendingAmount > 0

\* AnnualReportModal(date, expenses, incomes).  Expenses are grouped under
\* expense.frequency.toUpperCase(), evaluated outside any try block for every
\* expense with a valid date: a frequency that is not a string raises.
AnnualReportModal(z, n, date, exps, incs) ==
    LET generationDate == n
        itemsOfYear(recs, interval) ==
            SelectSeq([i \in 1..Len(recs) |->
                         annualItem(z, n, recs[i], interval, generationDate)],
                      hasAmount)
        raises(validExpenses) ==
            \E i \in 1..Len(validExpenses) :
                validExpenses[i].frequency.kind # "string"
        keys(validExpenses) ==
            { toUpperCase(validExpenses[i].frequency.s) :
                i \in 1..Len(validExpenses) }
        group(k, items) ==
            LET inGroup(e) == toUpperCase(e.frequency.s) = k
            IN  Only({ [expenses |-> members,
                        incurredTotal |->
                            sum([i \in 1..Len(members) |-> incurredOf(members[i])]),
                        pendingTotal |->
                            sum([i \in 1..Len(members) |-> pendingOf(members[i])])]
                       : members \in {SelectSeq(items, inGroup)} })
        rendered(pIncomes, validExpenses, items) ==
            LET tii == sum([i \in 1..Len(pIncomes) |-> incurredOf(pIncomes[i])])
                tpi == sum([i \in 1..Len(pIncomes) |-> pendingOf(pIncomes[i])])
                tie == sum([i \in 1..Len(items) |-> incurredOf(items[i])])
                tpe == sum([i \in 1..Len(items) |-> pendingOf(items[i])])
            IN  [threw |-> FALSE,
                 processedIncomes |-> pIncomes,
                 groupedExpenses |-> [k \in keys(validExpenses) |-> group(k, items)],
                 totalIncurredIncomes |-> tii,
                 totalPendingIncomes |-> tpi,
                 totalIncomes |-> tii + tpi,
                 totalIncurredExpenses |-> tie,
                 totalPendingExpenses |-> tpe,
                 totalExpenses |-> tie + tpe]
        render(interval, validIncomes, validExpenses) ==
            IF raises(validExpenses)
            THEN [threw |-> TRUE]
            ELSE Only({ rendered(pIncomes, validExpenses, items)
                        : pIncomes \in {itemsOfYear(validIncomes, interval)},
                          items \in {itemsOfYear(validExpenses, interval)} })
    IN  Only({ render(interval, validIncomes, validExpenses)
               : interval \in {[start |-> startOfYear(z, date),
                                end |-> endOfYear(z, date)]},
                 validIncomes \in {SelectSeq(incs, validRecordDate)},
                 validExpenses \in {SelectSeq(exps, validRecordDate)} })

\* the report modal of pages/Reports.tsx: the computation of useReportData
ReportModal(z, n, exps, incs, date, ed, filterType, selectedExpenseId, selectedCategoryId, isMonthlyBudget, cats) ==
    useReportData(z, n, exps, incs, date, ed, filterType, selectedExpenseId,
                  selectedCategoryId, isMonthlyBudget, cats)

-----------------------------------------------------------------------------
(* Inputs of the expansion.                                                *)

LastAnchorYear == 2025
LastWindowYear == 2027

TZOffsets == {-12, -5, 0, 2, 13}

AnchorDays   == {1, 2, 10, 28, 29, 30, 31}
AnchorMonths == {1, 2, 6, 12}

\* the calendar strings records are anchored at
AnchorStrings ==
    { s \in { Str(y, m, d) : y \in 2024..LastAnchorYear, m \in AnchorMonths,
                             d \in AnchorDays } : s.d <= DaysIn(s.y, s.m) }

Twice_Monthly == <<"T", "W", "I", "C", "E", "_", "M", "O", "N", "T", "H", "L", "Y">>
One_Time      == <<"O", "N", "E", "_", "T", "I", "M", "E">>
MixedMonthly  == <<"M", "o", "n", "t", "h", "l", "y">>
LowerYearly   == <<"y", "e", "a", "r", "l", "y">>
MixedOnce     == <<"O", "n", "c", "e">>
LowerBiweekly == <<"b", "i", "w", "e", "e", "k", "l", "y">>

FrequencyStrings ==
    {ONCE, MONTHLY, YEARLY, BIWEEKLY, WEEKLY, DAILY, Twice_Monthly, One_Time,
     MixedMonthly, LowerYearly, MixedOnce, LowerBiweekly}

Frequencies == {FStr(s) : s \in FrequencyStrings} \cup {FUndefined, FNull, FNumber}

\* calendar days a window or an interval ends on
WindowEndDays ==
    { Str(2024, 12, 31), Str(2025, 1, 31), Str(2025, 2, 1), Str(2025, 3, 31),
      Str(2025, 4, 30) } \cup
    { Str(y, 1, 1) : y \in 2027..LastWindowYear } \cup
    { Str(y, 2, 28) : y \in 2027..LastWindowYear }

\* window ends: a day picked as a Date (local midnight), the end of a month
\* (endOfMonth), or the argument left out
WindowEnds(z) ==
    { DateObj(parseISO(z, s)) : s \in WindowEndDays } \cup
    { DateObj(endOfMonth(z, parseISO(z, s))) : s \in WindowEndDays } \cup
    { Absent }

NowInstants == { DateUTC(2025, 3, 15, 9), DateUTC(2025, 1, 31, 20) }

-----------------------------------------------------------------------------
(* One call of getRecurringDates.                                          *)

NoResult == [threw |-> FALSE, dates |-> <<>>]
NoReport == [threw |-> FALSE]
NoScenario == [component |-> "none"]
NoRange == [date |-> Absent, endDate |-> Absent]
NoText == [pattern |-> "none"]
NoCursor == [kind |-> "absent"]
NoSummary == [threw |-> FALSE]
NoDateRange == [start |-> Absent, end |-> Absent]

Init ==
    /\ tz \in TZOffsets
    /\ now \in NowInstants
    /\ pc = "call"
    /\ startDate \in AnchorStrings \cup {Absent, Invalid, DateObj(now)}
    /\ frequency \in Frequencies
    /\ endDate \in WindowEnds(tz)
    /\ result = NoResult
    /\ expenses = <<>> /\ incomes = <<>> /\ categories = <<>>
    /\ range = NoRange /\ scenario = NoScenario /\ report = NoReport
    /\ formatted = NoText
    /\ renders = 0
    /\ cursor = NoCursor
    /\ summary = NoSummary /\ selectedDate = Absent
    /\ dateRange = NoDateRange /\ selectedDay = Absent

GetRecurringDates ==
    /\ pc = "call"
    /\ result' = getRecurringDates(tz, now, startDate, frequency, endDate)
    /\ pc' = "done"
    /\ UNCHANGED <<tz, now, startDate, frequency, endDate, reportVars, formatVars, memoVars, loopVars,
                   viewVars>>

GetRecurringDatesQC ==
    /\ pc = "call"
    /\ result' = getRecurringDatesQC(tz, now, startDate, frequency, endDate)
    /\ pc' = "doneQC"
    /\ UNCHANGED <<tz, now, startDate, frequency, endDate, reportVars, formatVars, memoVars, loopVars,
                   viewVars>>

Next == GetRecurringDates \/ GetRecurringDatesQC

Spec == Init /\ [][Next]_vars

-----------------------------------------------------------------------------
(* Properties of the expansion.  Occurrences, anchors and window ends are  *)
(* compared as calendar days: the local day of an instant, as the          *)
(* application displays it, and the day the record or the caller names.    *)

IsFreq(f) == frequency.kind = "string" /\ toUpperCase(frequency.s) = f

\* the calendar days of the occurrences returned
resultDays == [i \in 1..Len(result.dates) |-> LocalDay(tz, result.dates[i])]

\* the calendar day of the anchor string and of the window end
anchorDay == DayNum(startDate.y, startDate.m, startDate.d)
windowEndDay ==
    LocalDay(tz, IF endDate.kind = "absent" THEN DefaultEndDate(tz).t ELSE endDate.t)

\* the months from the anchor's month through the window end's month, as
\* year * 12 + (month - 1)
anchorMonthIndex == startDate.y * 12 + startDate.m - 1
windowEndMonthIndex ==
    LET c == Civil(windowEndDay) IN c.y * 12 + c.m - 1

\* day min(D, daysInMonth) of the month with index k
clampedDay(k, D) ==
    LET y == k \div 12
        m == (k % 12) + 1
    IN  DayNum(y, m, Min(D, DaysIn(y, m)))

inWindow(d) == d <= windowEndDay

\* C1: MONTHLY expansion of an anchor with day-of-month D yields, for every
\* month from the anchor's month through the window end's month, the day
\* min(D, daysInMonth) of that month (up to the window end), and nothing else.
C1_MonthlyClamped ==
    (pc = "done" /\ startDate.kind = "string" /\ IsFreq(MONTHLY)) =>
        resultDays =
            SelectSeq([i \in 1..(IF windowEndMonthIndex >= anchorMonthIndex
                                 THEN windowEndMonthIndex - anchorMonthIndex + 1
                                 ELSE 0) |->
                          clampedDay(anchorMonthIndex + i - 1, startDate.d)],
                      inWindow)

\* C2: BIWEEKLY expansion yields exactly the days anchor + 14 k, k >= 0, that
\* are not after the window end.
C2_BiweeklySpacing ==
    (pc = "done" /\ startDate.kind = "string" /\ IsFreq(BIWEEKLY)) =>
        resultDays =
            [k \in 1..(IF anchorDay <= windowEndDay
                       THEN (windowEndDay - anchorDay) \div 14 + 1 ELSE 0) |->
                anchorDay + 14 * (k - 1)]

\* C3: YEARLY expansion yields the anchor's month and day in the anchor's
\* year and in every following year, up to the window end (anchors other
\* than 29 February).
C3_YearlyStepping ==
    (pc = "done" /\ startDate.kind = "string" /\ IsFreq(YEARLY)
       /\ ~(startDate.m = 2 /\ startDate.d = 29)) =>
        resultDays =
            SelectSeq([k \in 1..(IF Civil(windowEndDay).y >= startDate.y
                                 THEN Civil(windowEndDay).y - startDate.y + 1
                                 ELSE 0) |->
                          DayNum(startDate.y + k - 1, startDate.m, startDate.d)],
                      inWindow)

\* C4: a ONCE record expands to exactly one occurrence, on the anchor's day,
\* whatever the window end.
C4_OnceIsSingular ==
    (pc = "done" /\ startDate.kind = "string" /\ IsFreq(ONCE)) =>
        resultDays = <<anchorDay>>

\* C10: getRecurringDates (lib/utils and the queryClient copy) returns a list
\* and never raises, whatever the anchor, the frequency and the window end.
C10_NeverRaises ==
    pc \in {"done", "doneQC"} =>
        /\ result.threw = FALSE
        /\ result.dates \in Seq(Int)

\* C10: a call with a null frequency, whose toUpperCase raised, returned []
C10_Witness ==
    /\ pc = "done"
    /\ frequency = FNull
    /\ startDate = Invalid
    /\ result = [threw |-> FALSE, dates |-> <<>>]

-----------------------------------------------------------------------------
(* Inputs of the reports.                                                  *)

MaxExpenses == 2

ReportTZOffsets == {-5, 0, 2}

\* generation instants: the morning and the afternoon (UTC) of 15 March 2025,
\* and a day in February
GenerationInstants ==
    { DateUTC(2025, 3, 15, 9), DateUTC(2025, 3, 15, 15), DateUTC(2025, 2, 10, 0) }

\* (date, frequency, amount in cents) of the records
OnceMarch15   == [date |-> Str(2025, 3, 15), frequency |-> FStr(ONCE), amount |-> 1000]
MonthlyJan31  == [date |-> Str(2025, 1, 31), frequency |-> FStr(MONTHLY), amount |-> 433600]
BiweeklyJan10 == [date |-> Str(2025, 1, 10), frequency |-> FStr(BIWEEKLY), amount |-> 216800]
YearlyMarch1  == [date |-> Str(2024, 3, 1), frequency |-> FStr(YEARLY), amount |-> 5000]
OnceJune2     == [date |-> Str(2024, 6, 2), frequency |-> FStr(ONCE), amount |-> 700]
NullFrequency == [date |-> Str(2025, 3, 15), frequency |-> FNull, amount |-> 900]
InvalidDate   == [date |-> Invalid, frequency |-> FStr(MixedMonthly), amount |-> 300]

\* records without their id
row(t, c) ==
    [date |-> t.date, frequency |-> t.frequency, amount |-> t.amount,
     categoryId |-> c]

ExpenseRows ==
    { row(OnceMarch15, 1), row(MonthlyJan31, 1), row(BiweeklyJan10, 2),
      row(OnceJune2, 1), row(NullFrequency, 2) }

\* lists of at most k different rows, in any order
RECURSIVE ListsUpTo(_, _)
ListsUpTo(rows, k) ==
    IF k = 0 THEN {<<>>}
    ELSE LET shorter == ListsUpTo(rows, k - 1)
             longest == {x \in shorter : Len(x) = k - 1}
         IN  shorter \cup
             UNION { { Append(l, r) : r \in rows \ {l[i] : i \in 1..Len(l)} }
                     : l \in longest }

\* the id of a record is its position in the table
withIds(rows) ==
    [i \in 1..Len(rows) |->
        [id |-> i, date |-> rows[i].date, frequency |-> rows[i].frequency,
         amount |-> rows[i].amount, categoryId |-> rows[i].categoryId]]

ExpenseLists == { withIds(l) : l \in ListsUpTo(ExpenseRows, MaxExpenses) }

IncomeLists ==
    { <<>>, withIds(<<row(BiweeklyJan10, 0)>>), withIds(<<row(YearlyMarch1, 0)>>),
      withIds(<<row(InvalidDate, 0)>>) }

\* the date and endDate props: days picked in a calendar (local midnight)
Ranges(z) ==
    { [date |-> DateObj(parseISO(z, Str(2025, 3, 15))),
       endDate |-> DateObj(parseISO(z, Str(2025, 3, 15)))],
      [date |-> DateObj(parseISO(z, Str(2025, 1, 10))),
       endDate |-> DateObj(parseISO(z, Str(2025, 3, 15)))],
      [date |-> DateObj(parseISO(z, Str(2025, 2, 28))),
       endDate |-> DateObj(parseISO(z, Str(2025, 3, 31)))] }

Sc(component, filterType, isMonthlyBudget, cats) ==
    [component |-> component, filterType |-> filterType,
     isMonthlyBudget |-> isMonthlyBudget, categories |-> cats,
     selectedExpenseId |-> 1, selectedCategoryId |-> 1]

Scenarios ==
    { Sc("useReportData", "all-expenses", FALSE, <<1, 2>>),
      Sc("useReportData", "all-incomes", FALSE, <<1, 2>>),
      Sc("useReportData", "all-categories", FALSE, <<1, 2>>),
      Sc("useReportData", "all-categories", FALSE, <<2>>),
      Sc("useReportData", "all-categories", FALSE, <<>>),
      Sc("useReportData", "single-expense", FALSE, <<1, 2>>),
      Sc("useReportData", "single-category", FALSE, <<1, 2>>),
      Sc("ReportModal", "all-expenses", TRUE, <<1, 2>>),
      Sc("ReportModal", "all-categories", FALSE, <<2, 1>>),
      Sc("AnnualReportModal", "all-expenses", FALSE, <<1, 2>>) }

-----------------------------------------------------------------------------
(* One rendering of a report.                                              *)

InitReport ==
    /\ tz \in ReportTZOffsets
    /\ now \in GenerationInstants
    /\ pc = "input"
    /\ startDate = Absent /\ frequency = FUndefined /\ endDate = Absent
    /\ result = NoResult
    /\ expenses \in ExpenseLists
    /\ incomes \in IncomeLists
    /\ scenario \in Scenarios
    /\ categories = scenario.categories
    /\ range \in IF scenario.component = "AnnualReportModal"
                 THEN {[date |-> DateObj(now), endDate |-> DateObj(now)]}
                 ELSE Ranges(tz)
    /\ report = NoReport
    /\ formatted = NoText
    /\ renders = 0
    /\ cursor = NoCursor
    /\ summary = NoSummary /\ selectedDate = Absent
    /\ dateRange = NoDateRange /\ selectedDay = Absent

UseReportData ==
    /\ pc = "input"
    /\ scenario.component = "useReportData"
    /\ report' = useReportData(tz, now, expenses, incomes, range.date,
                               range.endDate, scenario.filterType,
                               scenario.selectedExpenseId,
                               scenario.selectedCategoryId,
                               scenario.isMonthlyBudget, categories)
    /\ pc' = "report"
    /\ UNCHANGED <<tz, now, expandVars, expenses, incomes, categories, range,
                   scenario, formatVars, memoVars, loopVars,
                   viewVars>>

RenderReportModal ==
    /\ pc = "input"
    /\ scenario.component = "ReportModal"
    /\ report' = ReportModal(tz, now, expenses, incomes, range.date,
                             range.endDate, scenario.filterType,
                             scenario.selectedExpenseId,
                             scenario.selectedCategoryId,
                             scenario.isMonthlyBudget, categories)
    /\ pc' = "report"
    /\ UNCHANGED <<tz, now, expandVars, expenses, incomes, categories, range,
                   scenario, formatVars, memoVars, loopVars,
                   viewVars>>

RenderAnnualReportModal ==
    /\ pc = "input"
    /\ scenario.component = "AnnualReportModal"
    /\ report' = AnnualReportModal(tz, now, range.date.t, expenses, incomes)
    /\ pc' = "report"
    /\ UNCHANGED <<tz, now, expandVars, expenses, incomes, categories, range,
                   scenario, formatVars, memoVars, loopVars,
                   viewVars>>

NextReport == UseReportData \/ RenderReportModal \/ RenderAnnualReportModal

SpecReport == InitReport /\ [][NextReport]_vars

-----------------------------------------------------------------------------
(* Properties of the reports.                                              *)

IsReport == pc = "report" /\ scenario.component \in {"useReportData", "ReportModal"}
IsAnnual == pc = "report" /\ scenario.component = "AnnualReportModal"

\* the reporting interval of the rendering, and its first and last calendar day
interval == reportInterval(tz, now, range.date, range.endDate)
intervalStartDay == LocalDay(tz, interval.start)
intervalEndDay   == LocalDay(tz, interval.end)

\* the records a rendering lists
lineItems == report.processedExpenses \o report.processedIncomes

\* the expenses the filter type selects and the incomes the rendering processes
selectedExpenses ==
    LET wanted(e) ==
            IF scenario.filterType = "single-expense"
            THEN e.id = scenario.selectedExpenseId
            ELSE IF scenario.filterType = "single-category"
                 THEN e.categoryId = scenario.selectedCategoryId
            ELSE TRUE
    IN  SelectSeq(expenses, wanted)

selectedIncomes ==
    IF scenario.isMonthlyBudget \/ scenario.filterType = "all-incomes"
    THEN incomes ELSE <<>>

\* the occurrences of a record the expander yields for the interval
expandedFor(rec) ==
    getRecurringDates(tz, now, DateObj(ensureValidDateReport(tz, now, rec.date)),
                      rec.frequency, DateObj(interval.end)).dates

onIntervalDays(d) ==
    intervalStartDay <= LocalDay(tz, d) /\ LocalDay(tz, d) <= intervalEndDay

datesOf(r) == [k \in 1..Len(r.dates) |-> r.dates[k].date]

\* the line item of a record in a list of line items, if it has one
itemsOf(items, rec) == SelectSeq(items, LAMBDA r : r.id = rec.id)

\* C5: an occurrence is pending iff it is not strictly before the generation
\* instant, and an occurrence on the calendar day of the generation instant
\* is pending.
C5_PendingBoundary ==
    IsReport =>
        \A i \in 1..Len(lineItems) : \A k \in 1..Len(lineItems[i].dates) :
            LET o == lineItems[i].dates[k]
            IN  /\ o.isPending <=> ~(o.date < now)
                /\ LocalDay(tz, o.date) = LocalDay(tz, now) => o.isPending

\* C6: the occurrences retained for a record are exactly its expanded
\* occurrences whose calendar day lies between the first and the last day of
\* the interval, both included.
RetainedByDay(items, recs) ==
    \A i \in 1..Len(recs) :
        LET byDay == SelectSeq(expandedFor(recs[i]), onIntervalDays)
            found == itemsOf(items, recs[i])
        IN  IF byDay = <<>> THEN found = <<>>
            ELSE Len(found) = 1 /\ datesOf(found[1]) = byDay

C6_IntervalInclusive ==
    IsReport =>
        /\ RetainedByDay(report.processedExpenses, selectedExpenses)
        /\ RetainedByDay(report.processedIncomes, selectedIncomes)

\* the retained occurrences of a record: expanded, then filtered to the interval
retainedFor(rec) == SelectSeq(expandedFor(rec), LAMBDA d : isWithinInterval(d, interval))

hasRetained(rec) == retainedFor(rec) # <<>>

\* the same for the annual report, whose interval is the year of its date
annualInterval ==
    [start |-> startOfYear(tz, range.date.t), end |-> endOfYear(tz, range.date.t)]

annualRetained(rec) ==
    IF rec.date.kind = "string"
    THEN annualOccurrences(tz, now, rec, annualInterval, now)
    ELSE <<>>

annualExpenseItems ==
    { e \in UNION { { g.expenses[k] : k \in 1..Len(g.expenses) } :
                     g \in { report.groupedExpenses[f] :
                               f \in DOMAIN report.groupedExpenses } } : TRUE }

totalsOf(r) ==
    <<r.totalIncurredIncomes, r.totalPendingIncomes, r.totalIncomes,
      r.totalIncurredExpenses, r.totalPendingExpenses, r.totalExpenses>>

\* C7: a record with no retained occurrence in the interval is in no line
\* item, and the totals are those of the report without such records.
C7_ZeroOccurrenceDrop ==
    /\ IsReport =>
        /\ \A i \in 1..Len(expenses) :
               ~hasRetained(expenses[i]) =>
                   itemsOf(report.processedExpenses, expenses[i]) = <<>>
        /\ \A i \in 1..Len(incomes) :
               ~hasRetained(incomes[i]) =>
                   itemsOf(report.processedIncomes, incomes[i]) = <<>>
        /\ totalsOf(report) =
               totalsOf(useReportData(tz, now, SelectSeq(expenses, hasRetained),
                                      SelectSeq(incomes, hasRetained),
                                      range.date, range.endDate,
                                      scenario.filterType,
                                      scenario.selectedExpenseId,
                                      scenario.selectedCategoryId,
                                      scenario.isMonthlyBudget, categories))
    /\ (IsAnnual /\ ~report.threw) =>
        /\ \A i \in 1..Len(expenses) :
               annualRetained(expenses[i]) = <<>> =>
                   \A e \in annualExpenseItems : e.id # expenses[i].id
        /\ \A i \in 1..Len(incomes) :
               annualRetained(incomes[i]) = <<>> =>
                   itemsOf(report.processedIncomes, incomes[i]) = <<>>

\* C7: a report that lists one of two expenses, the other having no
\* occurrence in the interval
C7_Witness ==
    /\ IsReport
    /\ scenario.filterType = "all-expenses"
    /\ Len(expenses) = 2
    /\ Len(report.processedExpenses) = 1
    /\ ~hasRetained(expenses[1])
    /\ report.processedExpenses[1].id = 2
    /\ report.totalExpenses > 0

count(ds, pending) == Cardinality({k \in 1..Len(ds) : ds[k].isPending = pending})

\* C8: per line item, incurredAmount and pendingAmount are the amount times
\* the number of retained non-pending / pending occurrences and totalAmount is
\* their sum; the grand totals are the sums over the line items.
C8_AmountSums ==
    IsReport =>
        /\ \A i \in 1..Len(lineItems) :
               LET r == lineItems[i]
               IN  /\ r.incurredAmount = r.amount * count(r.dates, FALSE)
                   /\ r.pendingAmount = r.amount * count(r.dates, TRUE)
                   /\ r.totalAmount = r.incurredAmount + r.pendingAmount
        /\ report.totalIncurredExpenses =
               sum([i \in 1..Len(report.processedExpenses) |->
                       report.processedExpenses[i].incurredAmount])
        /\ report.totalPendingExpenses =
               sum([i \in 1..Len(report.processedExpenses) |->
                       report.processedExpenses[i].pendingAmount])
        /\ report.totalIncurredIncomes =
               sum([i \in 1..Len(report.processedIncomes) |->
                       report.processedIncomes[i].incurredAmount])
        /\ report.totalPendingIncomes =
               sum([i \in 1..Len(report.processedIncomes) |->
                       report.processedIncomes[i].pendingAmount])
        /\ report.totalExpenses =
               report.totalIncurredExpenses + report.totalPendingExpenses
        /\ report.totalIncomes =
               report.totalIncurredIncomes + report.totalPendingIncomes

\* C8: a line item with incurred and with pending occurrences, next to another
C8_Witness ==
    /\ IsReport
    /\ Len(report.processedExpenses) = 2
    /\ \E i \in 1..2 :
           /\ count(report.processedExpenses[i].dates, FALSE) >= 2
           /\ count(report.processedExpenses[i].dates, TRUE) >= 1
    /\ report.totalIncurredExpenses > 0
    /\ report.totalPendingExpenses > 0
    /\ report.totalIncomes > 0

everyCategoryValid ==
    \A i \in 1..Len(expenses) :
        \E c \in 1..Len(categories) : categories[c] = expenses[i].categoryId

\* C9: in a category-wise report whose expenses all have a category of the
\* list, the totals, the incurred and the pending amounts of the groups add
\* up to the grand totals of the expenses.
C9_CategoryRollup ==
    (IsReport /\ scenario.filterType = "all-categories" /\ everyCategoryValid) =>
        LET g == report.groupedExpenses
        IN  /\ sum([i \in 1..Len(g) |-> g[i].totalAmount]) = report.totalExpenses
            /\ sum([i \in 1..Len(g) |-> g[i].incurredAmount]) =
                   report.totalIncurredExpenses
            /\ sum([i \in 1..Len(g) |-> g[i].pendingAmount]) =
                   report.totalPendingExpenses

\* C9: a category-wise report with two groups
C9_Witness ==
    /\ IsReport
    /\ scenario.filterType = "all-categories"
    /\ everyCategoryValid
    /\ Len(report.groupedExpenses) = 2
    /\ report.totalExpenses > 0
    /\ report.groupedExpenses[1].totalAmount < report.totalExpenses

\* a record the aggregator cannot date or expand: its date is missing or
\* unparseable, or its frequency is missing
broken(rec) == rec.date.kind # "string" \/ rec.frequency.kind # "string"

sound(rec) == ~broken(rec)

\* the report of the same rendering without the broken records
reportOfSound ==
    useReportData(tz, now, SelectSeq(expenses, sound), SelectSeq(incomes, sound),
                  range.date, range.endDate, scenario.filterType,
                  scenario.selectedExpenseId, scenario.selectedCategoryId,
                  scenario.isMonthlyBudget, categories)

\* C11: a record whose date is missing or unparseable, or whose frequency is
\* missing, is in no line item, and the line items and the totals are those
\* of the report without such records.
C11_BrokenRecordsSkipped ==
    IsReport =>
        /\ \A i \in 1..Len(expenses) :
               broken(expenses[i]) =>
                   itemsOf(report.processedExpenses, expenses[i]) = <<>>
        /\ \A i \in 1..Len(incomes) :
               broken(incomes[i]) =>
                   itemsOf(report.processedIncomes, incomes[i]) = <<>>
        /\ report.processedExpenses = reportOfSound.processedExpenses
        /\ report.processedIncomes = reportOfSound.processedIncomes
        /\ totalsOf(report) = totalsOf(reportOfSound)

\* the frequencies of the closed enumeration of the expander
DeclaredFrequencies == {ONCE, MONTHLY, YEARLY, BIWEEKLY}

\* C12: a frequency string that is, in upper case, none of ONCE, MONTHLY,
\* YEARLY and BIWEEKLY expands like ONCE: the call does not raise and returns
\* exactly one occurrence, on the anchor's day.
C12_UnknownLikeOnce ==
    (pc = "done" /\ startDate.kind = "string" /\ frequency.kind = "string"
       /\ toUpperCase(frequency.s) \notin DeclaredFrequencies) =>
        /\ result.threw = FALSE
        /\ resultDays = <<anchorDay>>

\* C13: the dates getRecurringDates returns are in strictly ascending order:
\* each one is later than the one before it, so no date occurs twice.
C13_StrictlyAscending ==
    pc = "done" =>
        \A i \in 1..(Len(result.dates) - 1) : result.dates[i] < result.dates[i + 1]

\* C13: a MONTHLY expansion of an anchor on the 31st over at least four months
C13_Witness ==
    /\ pc = "done"
    /\ startDate.kind = "string" /\ startDate.d = 31
    /\ IsFreq(MONTHLY)
    /\ Len(result.dates) >= 4

-----------------------------------------------------------------------------
(* One call of formatDateForServer or formatDateForDisplay.                *)

\* every whole-hour offset of a local zone from UTC
FormatTZOffsets == -12..14

\* the dates formatted: a calendar string, the Date of a day picked in a
\* calendar (local midnight), or nothing usable
FormatInputs(z) ==
    AnchorStrings \cup { DateObj(parseISO(z, s)) : s \in AnchorStrings }
                  \cup { Absent, Invalid }

InitFormat ==
    /\ tz \in FormatTZOffsets
    /\ now \in NowInstants
    /\ pc = "value"
    /\ startDate \in FormatInputs(tz)
    /\ frequency = FUndefined /\ endDate = Absent
    /\ result = NoResult
    /\ expenses = <<>> /\ incomes = <<>> /\ categories = <<>>
    /\ range = NoRange /\ scenario = NoScenario /\ report = NoReport
    /\ formatted = NoText
    /\ renders = 0
    /\ cursor = NoCursor
    /\ summary = NoSummary /\ selectedDate = Absent
    /\ dateRange = NoDateRange /\ selectedDay = Absent

FormatDateForServer ==
    /\ pc = "value"
    /\ formatted' = formatDateForServer(tz, now, startDate)
    /\ pc' = "server"
    /\ UNCHANGED <<tz, now, expandVars, reportVars, memoVars, loopVars,
                   viewVars>>

FormatDateForDisplay ==
    /\ pc = "value"
    /\ formatted' = formatDateForDisplay(tz, now, startDate)
    /\ pc' = "display"
    /\ UNCHANGED <<tz, now, expandVars, reportVars, memoVars, loopVars,
                   viewVars>>

NextFormat == FormatDateForServer \/ FormatDateForDisplay

SpecFormat == InitFormat /\ [][NextFormat]_vars

\* C14: a calendar string normalised by ensureValidDate and formatted back in
\* the local zone is the calendar day of the string, for every zone offset
\* from -12 to +14 hours.
C14_RoundTrip ==
    (pc \in {"server", "display"} /\ startDate.kind = "string") =>
        /\ formatted.y = startDate.y
        /\ formatted.m = startDate.m
        /\ formatted.d = startDate.d

-----------------------------------------------------------------------------
(* The hook rendered again and again: what its memo cells keep between     *)
(* renders.                                                                *)

MaxRenders == 3

\* Object.is on two objects made by `new` or by an object literal: they are
\* the same object only when the same render made them
objectIsAlways(madeIn, comparedIn) == TRUE

objectIs(madeIn, comparedIn) == madeIn = comparedIn

\* useMemo: the cell's value is kept while every dependency is unchanged
useMemo(filled, kept, factory, depsUnchanged) ==
    IF filled /\ depsUnchanged THEN kept ELSE factory

\* useReportData rendered with the memo cells an earlier render left:
\* `interval` and `generationDate` are dependencies of processedIncomes and
\* processedExpenses and are made anew by every render, and the other
\* cells depend on those two
useReportDataRendered(previous, n0, z, n, exps, incs, date, ed, filterType, selectedExpenseId, selectedCategoryId, isMonthlyBudget, cats) ==
    Only({ useMemo(n0 > 0, previous, fresh, objectIs(n0, n0 + 1))
           : fresh \in {useReportData(z, n, exps, incs, date, ed, filterType,
                                      selectedExpenseId, selectedCategoryId,
                                      isMonthlyBudget, cats)} })

HookScenarios == { s \in Scenarios : s.component = "useReportData" }

HookExpenseLists == { l \in ExpenseLists : Len(l) < MaxExpenses }

InitRender ==
    /\ tz \in ReportTZOffsets
    /\ now \in GenerationInstants
    /\ pc = "input"
    /\ startDate = Absent /\ frequency = FUndefined /\ endDate = Absent
    /\ result = NoResult
    /\ expenses \in HookExpenseLists
    /\ incomes \in IncomeLists
    /\ scenario \in HookScenarios
    /\ categories = scenario.categories
    /\ range \in Ranges(tz)
    /\ report = NoReport
    /\ formatted = NoText
    /\ renders = 0
    /\ cursor = NoCursor
    /\ summary = NoSummary /\ selectedDate = Absent
    /\ dateRange = NoDateRange /\ selectedDay = Absent

\* one render of the component that calls the hook
Render ==
    /\ pc = "input"
    /\ report' = useReportDataRendered(report, renders, tz, now, expenses,
                                       incomes, range.date, range.endDate,
                                       scenario.filterType,
                                       scenario.selectedExpenseId,
                                       scenario.selectedCategoryId,
                                       scenario.isMonthlyBudget, categories)
    /\ renders' = renders + 1
    /\ pc' = "report"
    /\ UNCHANGED <<tz, now, expandVars, expenses, incomes, categories, range,
                   scenario, formatVars, loopVars,
                   viewVars>>

\* the component is rendered again later: the same or another range is
\* selected, and the clock shows the same or a later instant
SetProps ==
    /\ pc = "report"
    /\ renders < MaxRenders
    /\ \E r \in Ranges(tz), n \in GenerationInstants :
           /\ n >= now
           /\ range' = r
           /\ now' = n
    /\ pc' = "input"
    /\ UNCHANGED <<tz, expandVars, expenses, incomes, categories, scenario,
                   report, formatVars, memoVars, loopVars,
                   viewVars>>

NextRender == Render \/ SetProps

SpecRender == InitRender /\ [][NextRender]_vars

-----------------------------------------------------------------------------
(* One monthly record reported for one calendar month.                     *)

\* the seeded Rent expense
Rent == [date |-> Str(2025, 1, 1), frequency |-> FStr(MONTHLY), amount |-> 375000]

MonthlyAnchorStrings ==
    { Str(2025, 1, 1), Str(2025, 1, 31), Str(2025, 2, 28), Str(2024, 12, 15),
      Str(2024, 2, 29), Str(2025, 3, 20) }

MonthlyRecords ==
    { [date |-> s, frequency |-> FStr(f), amount |-> Rent.amount]
      : s \in MonthlyAnchorStrings, f \in {MONTHLY, MixedMonthly} }

\* date and endDate props within one calendar month
MonthRanges(z) ==
    { [date |-> DateObj(parseISO(z, Str(2025, 3, 1))),
       endDate |-> DateObj(parseISO(z, Str(2025, 3, 31)))],
      [date |-> DateObj(parseISO(z, Str(2025, 3, 15))),
       endDate |-> DateObj(parseISO(z, Str(2025, 3, 15)))],
      [date |-> DateObj(parseISO(z, Str(2025, 2, 1))),
       endDate |-> DateObj(parseISO(z, Str(2025, 2, 28)))],
      [date |-> DateObj(parseISO(z, Str(2025, 4, 1))),
       endDate |-> DateObj(parseISO(z, Str(2025, 4, 30)))] }

InitMonthly ==
    /\ tz \in ReportTZOffsets
    /\ now \in GenerationInstants
    /\ pc = "input"
    /\ startDate = Absent /\ frequency = FUndefined /\ endDate = Absent
    /\ result = NoResult
    /\ expenses \in { withIds(<<row(r, 1)>>) : r \in MonthlyRecords }
    /\ incomes = <<>>
    /\ scenario \in { Sc("useReportData", "all-expenses", FALSE, <<1, 2>>),
                      Sc("ReportModal", "all-expenses", TRUE, <<1, 2>>) }
    /\ categories = scenario.categories
    /\ range \in MonthRanges(tz)
    /\ report = NoReport
    /\ formatted = NoText
    /\ renders = 0
    /\ cursor = NoCursor
    /\ summary = NoSummary /\ selectedDate = Absent
    /\ dateRange = NoDateRange /\ selectedDay = Absent

NextMonthly == UseReportData \/ RenderReportModal

SpecMonthly == InitMonthly /\ [][NextMonthly]_vars

intervalMonthIndex ==
    LET c == LocalCivil(tz, interval.start) IN c.y * 12 + c.m - 1

recordMonthIndex(rec) == rec.date.y * 12 + rec.date.m - 1

isRentInMarch ==
    /\ expenses[1].date = Rent.date
    /\ range.date.t = parseISO(tz, Str(2025, 3, 1))
    /\ range.endDate.t = parseISO(tz, Str(2025, 3, 31))
    /\ LocalDay(tz, now) = DayNum(2025, 3, 15)

\* C16: the monthly Rent of 3750.00 anchored on 2025-01-01, reported for
\* 2025-03-01..2025-03-31 on 2025-03-15, has exactly one retained
\* occurrence, dated 2025-03-01 and incurred, incurredAmount 3750.00 and
\* pendingAmount 0; and every monthly record anchored in an earlier month
\* has exactly one retained occurrence in a later one-month interval.
C16_MonthlyOncePerMonth ==
    (IsReport /\ Len(expenses) = 1
     /\ expenses[1].frequency.kind = "string"
     /\ toUpperCase(expenses[1].frequency.s) = MONTHLY) =>
        /\ recordMonthIndex(expenses[1]) < intervalMonthIndex =>
              /\ Len(report.processedExpenses) = 1
              /\ Len(report.processedExpenses[1].dates) = 1
        /\ isRentInMarch =>
              /\ Len(report.processedExpenses) = 1
              /\ Len(report.processedExpenses[1].dates) = 1
              /\ LocalDay(tz, report.processedExpenses[1].dates[1].date)
                     = DayNum(2025, 3, 1)
              /\ ~report.processedExpenses[1].dates[1].isPending
              /\ report.processedExpenses[1].incurredAmount = Rent.amount
              /\ report.processedExpenses[1].pendingAmount = 0

-----------------------------------------------------------------------------
(* One call of getRecurringDates, an iteration of its loop at a time.      *)

LoopFrequencies == {DAILY, WEEKLY, BIWEEKLY, MONTHLY, YEARLY}

\* const start = ensureValidDate(startDate); const end = ensureValidDate(endDate)
loopStart(z, n, sd) == ensureValidDate(z, n, sd)

loopEnd(z, n, ed) ==
    ensureValidDate(z, n, IF ed.kind = "absent" THEN DefaultEndDate(z) ELSE ed)

\* frequency.toUpperCase(), with the parameter default
switchOn(freq) == toUpperCase(IF freq.kind = "undefined" THEN ONCE ELSE freq.s)

\* let dailyDate = new Date(start) / let monthlyDate = startOfMonth(start) / ...
firstCursor(z, f, start) == IF f = MONTHLY THEN startOfMonth(z, start) ELSE start

\* a loop body that neither pushes a date nor moves its date variable on
loopBodyIdle(z, f, start, end, cur, dates) == [cursor |-> cur, dates |-> dates]

\* one run of the body of the while loop of frequency f
loopBody(z, f, start, end, cur, dates) ==
    IF f = DAILY THEN [cursor |-> addDays(z, cur, 1), dates |-> Append(dates, cur)]
    ELSE IF f = WEEKLY
         THEN [cursor |-> addDays(z, cur, 7), dates |-> Append(dates, cur)]
    ELSE IF f = BIWEEKLY
         THEN [cursor |-> addDays(z, cur, 14), dates |-> Append(dates, cur)]
    ELSE IF f = MONTHLY
         THEN Only({ [cursor |-> addMonths(z, cur, 1),
                      dates |-> IF recurringDate >= start /\ recurringDate <= end
                                THEN Append(dates, recurringDate) ELSE dates]
                     : recurringDate \in
                           { Only({ DateLocal(z, c.y, c.m, actualDay, 12)
                                    : c \in {LocalCivil(z, cur)},
                                      actualDay \in
                                          {Min(getDate(z, start),
                                               getDaysInMonth(z, cur))} }) } })
    ELSE [cursor |-> addYears(z, cur, 1), dates |-> Append(dates, cur)]

LoopTZOffsets == {-5, 0, 2}

LoopAnchors ==
    { Str(2024, 2, 29), Str(LastAnchorYear, 12, 1), Str(2030, 6, 1), Invalid }

\* the longest loop the model runs
MaxIterations == 400

\* an upper bound of the number of times the loop condition holds
iterations(z, n, sd, freq, ed) ==
    LET f == switchOn(freq)
        stepDays == IF f = DAILY THEN 1 ELSE IF f = WEEKLY THEN 7
                    ELSE IF f = BIWEEKLY THEN 14 ELSE IF f = MONTHLY THEN 28
                    ELSE 365
    IN  IF freq.kind \in {"null", "number"} \/ f \notin LoopFrequencies THEN 0
        ELSE Only({ IF first <= end
                    THEN (end - first) \div (24 * stepDays) + 1 ELSE 0
                    : first \in {firstCursor(z, f, loopStart(z, n, sd))},
                      end \in {loopEnd(z, n, ed)} })

LoopInstants == { DateUTC(2025, 1, 31, 20) }

LoopFrequencyValues ==
    { FStr(s) : s \in LoopFrequencies \cup {ONCE, MixedMonthly, Twice_Monthly} }
        \cup {FUndefined, FNull}

LoopWindowEnds(z) ==
    { Absent, DateObj(parseISO(z, Str(2024, 12, 31))),
      DateObj(endOfMonth(z, parseISO(z, Str(LastWindowYear, 2, 28)))) }

InitLoop ==
    /\ tz \in LoopTZOffsets
    /\ now \in LoopInstants
    /\ pc = "call"
    /\ startDate \in LoopAnchors
    /\ frequency \in LoopFrequencyValues
    /\ endDate \in LoopWindowEnds(tz)
    /\ iterations(tz, now, startDate, frequency, endDate) <= MaxIterations
    /\ result = NoResult
    /\ expenses = <<>> /\ incomes = <<>> /\ categories = <<>>
    /\ range = NoRange /\ scenario = NoScenario /\ report = NoReport
    /\ formatted = NoText
    /\ renders = 0
    /\ cursor = NoCursor
    /\ summary = NoSummary /\ selectedDate = Absent
    /\ dateRange = NoDateRange /\ selectedDay = Absent

\* the statements before the loop; toUpperCase of a null frequency raises
\* and the catch block returns []
EnterSwitch ==
    /\ pc = "call"
    /\ IF frequency.kind \in {"null", "number"}
       THEN /\ result' = [threw |-> FALSE, dates |-> <<>>]
            /\ cursor' = NoCursor
            /\ pc' = "done"
       ELSE IF switchOn(frequency) \in LoopFrequencies
       THEN /\ result' = NoResult
            /\ cursor' = DateObj(firstCursor(tz, switchOn(frequency),
                                             loopStart(tz, now, startDate)))
            /\ pc' = "loop"
       ELSE /\ result' = [threw |-> FALSE,
                          dates |-> <<loopStart(tz, now, startDate)>>]
            /\ cursor' = NoCursor
            /\ pc' = "sort"
    /\ UNCHANGED <<tz, now, startDate, frequency, endDate, reportVars,
                   formatVars, memoVars,
                   viewVars>>

\* while (cursor <= end): one run of the body
LoopIteration ==
    /\ pc = "loop"
    /\ cursor.t <= loopEnd(tz, now, endDate)
    /\ \E after \in {loopBody(tz, switchOn(frequency), loopStart(tz, now, startDate),
                              loopEnd(tz, now, endDate), cursor.t, result.dates)} :
           /\ cursor' = DateObj(after.cursor)
           /\ result' = [threw |-> FALSE, dates |-> after.dates]
    /\ pc' = "loop"
    /\ UNCHANGED <<tz, now, startDate, frequency, endDate, reportVars,
                   formatVars, memoVars,
                   viewVars>>

\* the loop condition is false: break
LoopExit ==
    /\ pc = "loop"
    /\ ~(cursor.t <= loopEnd(tz, now, endDate))
    /\ pc' = "sort"
    /\ UNCHANGED <<tz, now, expandVars, reportVars, formatVars, memoVars,
                   loopVars,
                   viewVars>>

\* return dates.sort(...)
SortAndReturn ==
    /\ pc = "sort"
    /\ result' = [threw |-> FALSE, dates |-> sortByTime(result.dates)]
    /\ pc' = "done"
    /\ UNCHANGED <<tz, now, startDate, frequency, endDate, reportVars,
                   formatVars, memoVars, loopVars,
                   viewVars>>

NextLoop == EnterSwitch \/ LoopIteration \/ LoopExit \/ SortAndReturn

SpecLoop == InitLoop /\ [][NextLoop]_vars

\* the call runs on one thread and nothing pre-empts it: a statement that
\* can run does run
SpecLoopFair == SpecLoop /\ WF_vars(NextLoop)

\* C17: every call of getRecurringDates returns, for every anchor, frequency
\* and window end, the omitted window end included.
C17_Terminates == <>(pc = "done")

\* a call without window end that returned after more than 300 iterations
C17_Witness ==
    /\ pc = "done"
    /\ endDate.kind = "absent"
    /\ startDate.kind = "string"
    /\ IsFreq(WEEKLY)
    /\ Len(result.dates) > 300

\* the stepwise loops return what getRecurringDates returns
LoopsAgree ==
    pc = "done" => result = getRecurringDates(tz, now, startDate, frequency, endDate)

-----------------------------------------------------------------------------
(* Reports of empty tables.                                                *)

allEmpty == expenses = <<>> /\ incomes = <<>> /\ categories = <<>>

\* C18: with no expense, no income and no category the hook returns empty
\* processedIncomes, processedExpenses and groupedExpenses and totals that
\* are all zero.
C18_EmptyInputs ==
    (pc = "report" /\ scenario.component = "useReportData" /\ allEmpty) =>
        /\ report.processedIncomes = <<>>
        /\ report.processedExpenses = <<>>
        /\ report.groupedExpenses = <<>>
        /\ totalsOf(report) = <<0, 0, 0, 0, 0, 0>>

C18_Witness ==
    /\ pc = "report"
    /\ scenario.component = "useReportData"
    /\ scenario.filterType = "all-categories"
    /\ allEmpty
    /\ report.groupedExpenses = <<>>

-----------------------------------------------------------------------------
(* The first occurrence and the bounds of the occurrences.                 *)

isRecurring == IsFreq(BIWEEKLY) \/ IsFreq(MONTHLY) \/ IsFreq(YEARLY)

\* C19: for BIWEEKLY, MONTHLY and YEARLY, when the anchor is not after the
\* window end, the first occurrence returned is on the anchor's calendar
\* day, in every local zone.
C19_FirstIsAnchor ==
    (pc = "done" /\ startDate.kind = "string" /\ isRecurring
     /\ anchorDay <= windowEndDay) =>
        /\ Len(result.dates) > 0
        /\ resultDays[1] = anchorDay

\* C20: for BIWEEKLY, MONTHLY and YEARLY every occurrence returned is on a
\* day from the anchor's day through the window end's day, the window end
\* being 31 December 2030 when the argument is left out.
C20_WithinWindow ==
    (pc = "done" /\ startDate.kind = "string" /\ isRecurring) =>
        \A i \in 1..Len(result.dates) :
            anchorDay <= resultDays[i] /\ resultDays[i] <= windowEndDay

-----------------------------------------------------------------------------
(* The reporting interval.                                                 *)

\* the month of the date prop, from its first hour to its last
monthOfStart ==
    LET c == LocalCivil(tz, range.date.t)
    IN  [start |-> DateLocal(tz, c.y, c.m, 1, 0),
         end |-> DateLocal(tz, c.y, c.m, DaysIn(c.y, c.m), 23)]

sameCalendarMonth ==
    LET cs == LocalCivil(tz, range.date.t)
        ce == LocalCivil(tz, range.endDate.t)
    IN  cs.y = ce.y /\ cs.m = ce.m

expectedInterval ==
    IF sameCalendarMonth THEN monthOfStart
    ELSE [start |-> range.date.t, end |-> range.endDate.t]

\* the occurrences of a record up to a month after the expected interval
widelyExpanded(rec) ==
    getRecurringDates(tz, now, DateObj(ensureValidDateReport(tz, now, rec.date)),
                      rec.frequency,
                      DateObj(addMonths(tz, expectedInterval.end, 1))).dates

inExpectedInterval(d) == expectedInterval.start <= d /\ d <= expectedInterval.end

RetainedByInterval(items, recs) ==
    \A i \in 1..Len(recs) :
        LET kept  == SelectSeq(widelyExpanded(recs[i]), inExpectedInterval)
            found == itemsOf(items, recs[i])
        IN  IF kept = <<>> THEN found = <<>>
            ELSE Len(found) = 1 /\ datesOf(found[1]) = kept

\* C21: the reporting interval is the whole calendar month of the start when
\* start and end are in the same month of the same year and [start, end]
\* otherwise, and a record's retained occurrences are exactly its
\* occurrences inside that interval.
C21_MonthlyOrRangeView ==
    IsReport =>
        /\ RetainedByInterval(report.processedExpenses, selectedExpenses)
        /\ RetainedByInterval(report.processedIncomes, selectedIncomes)

\* a monthly view that retains an occurrence after the end date picked, and
\* a range view
C21_Witness ==
    /\ IsReport
    /\ sameCalendarMonth
    /\ \E i \in 1..Len(report.processedExpenses) :
           \E k \in 1..Len(report.processedExpenses[i].dates) :
               report.processedExpenses[i].dates[k].date > range.endDate.t + 48

C21_WitnessRange ==
    /\ IsReport
    /\ ~sameCalendarMonth
    /\ Len(report.processedExpenses) > 0

\* date and endDate props: the ranges of the reports and a range from March
\* of one year to March of the next
IntervalRanges(z) ==
    Ranges(z) \cup
    { [date |-> DateObj(parseISO(z, Str(2024, 3, 20))),
       endDate |-> DateObj(parseISO(z, Str(2025, 3, 15)))] }

InitInterval ==
    /\ tz \in ReportTZOffsets
    /\ now \in GenerationInstants
    /\ pc = "input"
    /\ startDate = Absent /\ frequency = FUndefined /\ endDate = Absent
    /\ result = NoResult
    /\ expenses \in HookExpenseLists
    /\ incomes \in IncomeLists
    /\ scenario \in { s \in Scenarios : s.component # "AnnualReportModal" }
    /\ categories = scenario.categories
    /\ range \in IntervalRanges(tz)
    /\ report = NoReport
    /\ formatted = NoText
    /\ renders = 0
    /\ cursor = NoCursor
    /\ summary = NoSummary /\ selectedDate = Absent
    /\ dateRange = NoDateRange /\ selectedDay = Absent

NextInterval == UseReportData \/ RenderReportModal

SpecInterval == InitInterval /\ [][NextInterval]_vars

\* a range view whose ends are in the same month of different years
C21_WitnessYears ==
    /\ IsReport
    /\ LocalCivil(tz, range.date.t).m = LocalCivil(tz, range.endDate.t).m
    /\ ~sameCalendarMonth
    /\ Len(report.processedExpenses) > 0

-----------------------------------------------------------------------------
(* The order and the members of the category-wise view.                    *)

\* the categories with an expense that has a retained occurrence
categoryRetained(c) ==
    \E i \in 1..Len(expenses) : expenses[i].categoryId = c /\ hasRetained(expenses[i])

listedCategories ==
    { report.groupedExpenses[i].category : i \in 1..Len(report.groupedExpenses) }

\* C22: in the category-wise view the groups are in descending order of
\* totalAmount, every group has an expense with a retained occurrence, and
\* a category without retained expense has no group.
C22_GroupsOrdered ==
    (IsReport /\ scenario.filterType = "all-categories") =>
        LET g == report.groupedExpenses
        IN  /\ \A i \in 1..(Len(g) - 1) : g[i].totalAmount >= g[i + 1].totalAmount
            /\ \A i \in 1..Len(g) :
                   /\ Len(g[i].expenses) > 0
                   /\ \A k \in 1..Len(g[i].expenses) :
                          Len(g[i].expenses[k].dates) > 0
                   /\ categoryRetained(g[i].category)
            /\ \A c \in 1..Len(categories) :
                   ~categoryRetained(categories[c]) =>
                       categories[c] \notin listedCategories

\* two categories, one of them with an expense but without retained
\* occurrence, and one group
C22_Witness ==
    /\ IsReport
    /\ scenario.filterType = "all-categories"
    /\ Len(categories) = 2
    /\ Len(report.groupedExpenses) = 1
    /\ \E i \in 1..Len(expenses) :
           expenses[i].categoryId \notin listedCategories

\* two groups listed in the order opposite to that of the categories
C22_WitnessOrder ==
    /\ IsReport
    /\ scenario.filterType = "all-categories"
    /\ Len(report.groupedExpenses) = 2
    /\ report.groupedExpenses[1].category = categories[2]
    /\ report.groupedExpenses[1].totalAmount > report.groupedExpenses[2].totalAmount

-----------------------------------------------------------------------------
(* Expansion without a usable anchor.                                      *)

noAnchor == startDate.kind \in {"absent", "invalid"}

windowEndInstant ==
    IF endDate.kind = "absent" THEN DefaultEndDate(tz).t ELSE endDate.t

\* the monthly occurrence of the month of instant t for day-of-month D
monthlyOccurrence(t, D) ==
    LET c == LocalCivil(tz, t)
    IN  DateLocal(tz, c.y, c.m, Min(D, DaysIn(c.y, c.m)), 12)

\* getRecurringDates called without a usable anchor takes the current instant
\* as anchor and returns normally: ONCE (and every frequency without a loop)
\* gives exactly the current instant; the loops of the recurring frequencies
\* start from it, so no occurrence is before it, BIWEEKLY and YEARLY begin
\* with it, and MONTHLY falls on its day of the month.
FallbackAnchorDirect ==
    (pc = "done" /\ noAnchor /\ frequency.kind \in {"string", "undefined"}) =>
        LET f == switchOn(frequency)
        IN  /\ result.threw = FALSE
            /\ f \notin LoopFrequencies => result.dates = <<now>>
            /\ f \in LoopFrequencies =>
                   /\ \A i \in 1..Len(result.dates) : result.dates[i] >= now
                   /\ now + 24 <= windowEndInstant =>
                          (f # MONTHLY => Len(result.dates) > 0)
                   /\ (f # MONTHLY /\ Len(result.dates) > 0) =>
                          result.dates[1] = now
                   /\ f = MONTHLY =>
                          \A i \in 1..Len(result.dates) :
                              result.dates[i] =
                                  monthlyOccurrence(result.dates[i],
                                                    getDate(tz, now))

\* the anchor the report hands over for a record whose date is absent or
\* unparseable: its own ensureValidDate returns new Date()
reportFallbackAnchor == startDate = DateObj(now)

\* C23: the expansion of a record without usable anchor date is anchored at
\* the current instant, called directly or with the report's fallback
\* date: a frequency without a loop gives exactly one occurrence, on the
\* local calendar day of the current instant, and the first occurrence of
\* BIWEEKLY and YEARLY is on that day.
C23_FallbackAnchor ==
    (pc = "done" /\ (noAnchor \/ reportFallbackAnchor)
     /\ frequency.kind \in {"string", "undefined"}) =>
        LET f == switchOn(frequency)
        IN  /\ result.threw = FALSE
            /\ f \notin LoopFrequencies =>
                   resultDays = <<LocalDay(tz, now)>>
            /\ (f \in {BIWEEKLY, YEARLY} /\ Len(result.dates) > 0) =>
                   resultDays[1] = LocalDay(tz, now)

\* a yearly expansion from the current instant, the anchor being unparseable
C23_Witness ==
    /\ pc = "done"
    /\ startDate = Invalid
    /\ IsFreq(YEARLY)
    /\ Len(result.dates) >= 2
    /\ result.dates[1] = now

C23_WitnessOnce ==
    /\ pc = "done"
    /\ startDate = Absent
    /\ IsFreq(ONCE)
    /\ result.dates = <<now>>

-----------------------------------------------------------------------------
(* The same report rendered again while the clock advances.                *)

InitClock == InitRender

\* the component is rendered again at a later instant, its props unchanged
Tick ==
    /\ pc = "report"
    /\ renders < MaxRenders
    /\ \E n \in GenerationInstants :
           /\ n > now
           /\ now' = n
    /\ pc' = "input"
    /\ UNCHANGED <<tz, expandVars, reportVars, formatVars, memoVars, loopVars,
                   viewVars>>

NextClock == Render \/ Tick

SpecClock == InitClock /\ [][NextClock]_vars

\* line items of a later rendering against those of an earlier one
laterItems(old, new) ==
    /\ Len(new) = Len(old)
    /\ \A i \in 1..Len(new) :
           /\ new[i].id = old[i].id
           /\ datesOf(new[i]) = datesOf(old[i])
           /\ \A k \in 1..Len(new[i].dates) :
                  new[i].dates[k].isPending => old[i].dates[k].isPending
           /\ new[i].incurredAmount >= old[i].incurredAmount
           /\ new[i].pendingAmount <= old[i].pendingAmount
           /\ new[i].totalAmount = old[i].totalAmount

laterReport(old, new) ==
    /\ laterItems(old.processedExpenses, new.processedExpenses)
    /\ laterItems(old.processedIncomes, new.processedIncomes)
    /\ new.totalIncurredExpenses >= old.totalIncurredExpenses
    /\ new.totalPendingExpenses <= old.totalPendingExpenses
    /\ new.totalExpenses = old.totalExpenses
    /\ new.totalIncurredIncomes >= old.totalIncurredIncomes
    /\ new.totalPendingIncomes <= old.totalPendingIncomes
    /\ new.totalIncomes = old.totalIncomes

rendersAgain == pc = "input" /\ renders > 0 /\ pc' = "report"

\* C24: a report rendered again at a later generation instant, for the same
\* records and interval, has the same line items with the same retained
\* occurrences and the same totalAmount; an occurrence that was incurred
\* stays incurred, no incurredAmount is smaller and no pendingAmount larger.
C24_PendingToIncurred == [][rendersAgain => laterReport(report, report')]_vars

allSound ==
    /\ \A i \in 1..Len(expenses) : sound(expenses[i])
    /\ \A i \in 1..Len(incomes) : sound(incomes[i])

\* the same for reports whose records all have a date and a frequency
LaterReportOfSound ==
    [][(rendersAgain /\ allSound) => laterReport(report, report')]_vars

-----------------------------------------------------------------------------
(* components/MonthSummary and the Dashboard page that renders it next to  *)
(* the Monthly Budget report.                                              *)

\* MonthSummary: the occurrences of one record in the month, each with the
\* pending flag of its day (the key format(recDate, 'yyyy-MM-dd') parsed back)
summaryOccurrences(z, n, rec, month, today) ==
    IF rec.date.kind = "invalid" THEN <<>>
    ELSE LET recordDate == IF rec.date.kind = "absent" THEN n
                           ELSE IF rec.date.kind = "string"
                                THEN parseISO(z, rec.date)
                           ELSE rec.date.t
             recordFrequency == IF rec.frequency.kind \in {"undefined", "null"}
                                THEN FStr(ONCE) ELSE rec.frequency
             inside(d) == isWithinInterval(d, month)
             transactionDate(d) ==
                 Only({ parseISO(z, Str(dateKey.y, dateKey.m, dateKey.d))
                        : dateKey \in {format(z, d, "yyyy-MM-dd")} })
         IN  Only({ [i \in 1..Len(recurringDates) |->
                        [date |-> recurringDates[i],
                         isPending |-> ~isBefore(transactionDate(recurringDates[i]),
                                                 today),
                         amount |-> rec.amount]]
                    : recurringDates \in
                          { SelectSeq(getRecurringDates(z, n, DateObj(recordDate),
                                                        recordFrequency,
                                                        DateObj(month.end)).dates,
                                      inside) } })

\* the elements of the lists of a list, in order
RECURSIVE flatten(_)
flatten(ss) == IF ss = <<>> THEN <<>> ELSE ss[1] \o flatten(Tail(ss))

\* MonthSummary: the four running totals and their sums
MonthSummary(z, n, date, exps, incs) ==
    LET today == n
        totals(incomeDates, expenseDates) ==
            Only({ [totalIncurredIncomes |-> tii,
                    totalPendingIncomes |-> tpi,
                    totalIncomes |-> tii + tpi,
                    totalIncurredExpenses |-> tie,
                    totalPendingExpenses |-> tpe,
                    totalExpenses |-> tie + tpe]
                   : tii \in {sum([i \in 1..Len(incomeDates) |->
                                      incurredPart(incomeDates[i])])},
                     tpi \in {sum([i \in 1..Len(incomeDates) |->
                                      pendingPart(incomeDates[i])])},
                     tie \in {sum([i \in 1..Len(expenseDates) |->
                                      incurredPart(expenseDates[i])])},
                     tpe \in {sum([i \in 1..Len(expenseDates) |->
                                      pendingPart(expenseDates[i])])} })
        all(recs, month) ==
            flatten([i \in 1..Len(recs) |->
                        summaryOccurrences(z, n, recs[i], month, today)])
    IN  Only({ Only({ totals(incomeDates, expenseDates)
                      : incomeDates \in {all(incs, month)},
                        expenseDates \in {all(exps, month)} })
               : month \in {[start |-> startOfMonth(z, date),
                                end |-> endOfMonth(z, date)]} })

\* the selectedDate state: TODAY, or a day picked in the calendar
SelectedDates(z, n) ==
    { DateObj(n), DateObj(parseISO(z, Str(2025, 3, 15))),
      DateObj(parseISO(z, Str(2025, 2, 28))) }

InitDashboard ==
    /\ tz \in ReportTZOffsets
    /\ now \in GenerationInstants
    /\ pc = "input"
    /\ startDate = Absent /\ frequency = FUndefined /\ endDate = Absent
    /\ result = NoResult
    /\ expenses \in HookExpenseLists
    /\ incomes \in IncomeLists
    /\ scenario = Sc("ReportModal", "all-expenses", TRUE, <<1, 2>>)
    /\ categories = scenario.categories
    /\ selectedDate \in SelectedDates(tz, now)
    /\ range = [date |-> selectedDate, endDate |-> selectedDate]
    /\ report = NoReport
    /\ formatted = NoText
    /\ renders = 0
    /\ cursor = NoCursor
    /\ summary = NoSummary
    /\ dateRange = NoDateRange /\ selectedDay = Absent

\* the Dashboard renders MonthSummary and the Monthly Budget report for the
\* selected date
RenderDashboard ==
    /\ pc = "input"
    /\ summary' = MonthSummary(tz, now, selectedDate.t, expenses, incomes)
    /\ report' = ReportModal(tz, now, expenses, incomes, selectedDate,
                             selectedDate, "all-expenses",
                             scenario.selectedExpenseId,
                             scenario.selectedCategoryId, TRUE, categories)
    /\ pc' = "report"
    /\ UNCHANGED <<tz, now, expandVars, expenses, incomes, categories, range,
                   scenario, formatVars, memoVars, loopVars, selectedDate,
                   dateRange, selectedDay>>

NextDashboard == RenderDashboard

SpecDashboard == InitDashboard /\ [][NextDashboard]_vars

\* C25: the incurred, pending and total amounts of incomes and expenses that
\* MonthSummary shows are those of the Monthly Budget report of the same
\* month, records and generation instant.
C25_SummaryMatchesReport ==
    (pc = "report" /\ summary # NoSummary) =>
        <<summary.totalIncurredIncomes, summary.totalPendingIncomes,
          summary.totalIncomes, summary.totalIncurredExpenses,
          summary.totalPendingExpenses, summary.totalExpenses>> = totalsOf(report)

-----------------------------------------------------------------------------
(* Yearly stepping (lib/utils getRecurringDates, case 'YEARLY').           *)

\* the day the anchor's month and day-of-month fall on k years after the
\* anchor, the day-of-month reduced to the length of the month in that year
yearlyDay(k) ==
    DayNum(startDate.y + k, startDate.m,
           Min(startDate.d, DaysIn(startDate.y + k, startDate.m)))

\* C26: the k-th YEARLY occurrence after the anchor is on the anchor's month
\* and on day min(anchor day, days of that month in year anchor + k), so an
\* anchor of 29 February is on 29 February again in every later leap year.
C26_YearlyNoDrift ==
    (pc = "done" /\ startDate.kind = "string" /\ IsFreq(YEARLY)) =>
        \A i \in 1..Len(result.dates) : resultDays[i] = yearlyDay(i - 1)

\* a yearly expansion from 29 February 2024 that reaches 2028, in UTC
C26_Witness ==
    /\ pc = "done"
    /\ tz = 0
    /\ startDate = Str(2024, 2, 29)
    /\ IsFreq(YEARLY)
    /\ Len(result.dates) >= 5

-----------------------------------------------------------------------------
(* lib/queryClient: the second copy of getRecurringDates, which rebuilds   *)
(* every date it pushes from UTC components.                               *)

\* new Date(Date.UTC(d.getUTCFullYear(), d.getUTCMonth(), d.getUTCDate(), 12, 0, 0))
noonUTC(t) == Only({ DateUTC(c.y, c.m, c.d, 12) : c \in {UTCCivil(t)} })

\* the MONTHLY loop of the second copy: the day is clamped to the length of
\* the local month of currentDate and placed in its UTC year and month
monthlyLoopQC2(z, first, dayOfMonth, start, end) ==
    LET span  == IF first <= end THEN (end - first) \div (24 * 28) + 1 ELSE 0
        steps == Cardinality({k \in 0..span : addMonths(z, first, k) <= end})
        recurring(currentDate) ==
            LET daysInMonth == getDaysInMonth(z, currentDate)
                actualDay   == Min(dayOfMonth, daysInMonth)
            IN  Only({ DateUTC(c.y, c.m, actualDay, 12)
                       : c \in {UTCCivil(currentDate)} })
        candidate(k) ==
            Only({ recurring(currentDate) : currentDate \in {addMonths(z, first, k)} })
        pushed(recurringDate) == recurringDate >= start /\ recurringDate <= end
    IN  IF first <= end
        THEN Only({ SelectSeq([k \in 1..n |-> candidate(k - 1)], pushed)
                    : n \in {steps} })
        ELSE <<>>

\* the switch over normalizedFrequency of the second copy
expandSwitchQC2(z, f, start, end) ==
    LET fromStart(d) == d >= start
        rebuilt(s) == [i \in 1..Len(s) |-> noonUTC(s[i])]
    IN  IF f = BIWEEKLY
        THEN rebuilt(SelectSeq(daysLoop(z, start, end, 14), fromStart))
        ELSE IF f = MONTHLY
             THEN Only({ monthlyLoopQC2(z, first, dayOfMonth, start, end)
                         : first \in {startOfMonth(z, start)},
                           dayOfMonth \in {getDate(z, start)} })
        ELSE IF f = YEARLY
             THEN rebuilt(SelectSeq(yearlyLoop(z, start, end), fromStart))
        ELSE <<noonUTC(start)>>

getRecurringDatesQC2Try(z, n, sd, freq, ed) ==
    LET expand(start, end) ==
            IF freq.kind = "number"
            THEN [threw |-> TRUE, dates |-> <<>>]
            ELSE Only({ [threw |-> FALSE,
                         dates |-> sortByTime(expandSwitchQC2(z, f, start, end))]
                        : f \in {toUpperCase(IF freq.kind \in {"undefined", "null"}
                                             THEN ONCE ELSE freq.s)} })
    IN  Only({ expand(start, end)
               : start \in {ensureValidDateQC(z, n, sd)},
                 end \in {ensureValidDateQC(z, n, IF ed.kind = "absent"
                                                  THEN DefaultEndDate(z) ELSE ed)} })

getRecurringDatesQC2(z, n, sd, freq, ed) ==
    Only({ IF r.threw THEN [threw |-> FALSE, dates |-> <<>>] ELSE r
           : r \in {getRecurringDatesQC2Try(z, n, sd, freq, ed)} })

-----------------------------------------------------------------------------
(* One call of each copy of getRecurringDates on the same arguments.       *)

InitCopies ==
    /\ tz \in TZOffsets
    /\ now = DateUTC(2025, 3, 15, 9)
    /\ pc = "call"
    /\ startDate \in AnchorStrings
    /\ frequency \in {FStr(s) : s \in DeclaredFrequencies}
    /\ endDate \in WindowEnds(tz)
    /\ result = NoResult
    /\ expenses = <<>> /\ incomes = <<>> /\ categories = <<>>
    /\ range = NoRange /\ scenario = NoScenario /\ report = NoReport
    /\ formatted = NoText
    /\ renders = 0
    /\ cursor = NoCursor
    /\ summary = NoSummary /\ selectedDate = Absent
    /\ dateRange = NoDateRange /\ selectedDay = Absent

GetRecurringDatesQC2 ==
    /\ pc = "call"
    /\ result' = getRecurringDatesQC2(tz, now, startDate, frequency, endDate)
    /\ pc' = "doneQC2"
    /\ UNCHANGED <<tz, now, startDate, frequency, endDate, reportVars, formatVars, memoVars, loopVars,
                   viewVars>>

NextCopies == GetRecurringDates \/ GetRecurringDatesQC \/ GetRecurringDatesQC2

SpecCopies == InitCopies /\ [][NextCopies]_vars

\* the calendar days lib/utils getRecurringDates returns for the arguments
utilsDays ==
    LET dates == getRecurringDates(tz, now, startDate, frequency, endDate).dates
    IN  [i \in 1..Len(dates) |-> LocalDay(tz, dates[i])]

\* C27: for every anchor, window end and zone offset and every frequency of
\* ONCE, BIWEEKLY, MONTHLY and YEARLY, the two copies of getRecurringDates in
\* lib/queryClient return the calendar dates that lib/utils returns.
C27_CopiesAgree ==
    pc \in {"doneQC", "doneQC2"} => resultDays = utilsDays

\* the first copy of lib/queryClient returns what lib/utils returns
FirstCopyAgrees ==
    pc = "doneQC" => result = getRecurringDates(tz, now, startDate, frequency, endDate)

-----------------------------------------------------------------------------
(* Letter case of the frequency (frequency.toUpperCase()).                 *)

\* the upper-case code of a frequency written in mixed or lower case
upperCaseCode(s) ==
    IF s = MixedMonthly THEN MONTHLY
    ELSE IF s = LowerYearly THEN YEARLY
    ELSE IF s = MixedOnce THEN ONCE
    ELSE IF s = LowerBiweekly THEN BIWEEKLY
    ELSE s

\* C28: a frequency string written in mixed or lower case ('Monthly',
\* 'yearly', 'Once', 'biweekly') expands exactly like its upper-case code:
\* getRecurringDates returns the same dates for the same anchor and window end.
C28_CaseInsensitive ==
    (pc = "done" /\ frequency.kind = "string"
       /\ frequency.s \in {MixedMonthly, LowerYearly, MixedOnce, LowerBiweekly}) =>
        result = getRecurringDates(tz, now, startDate,
                                   FStr(upperCaseCode(frequency.s)), endDate)

\* a 'Monthly' record expanded over at least three months
C28_Witness ==
    /\ pc = "done"
    /\ frequency = FStr(MixedMonthly)
    /\ startDate.kind = "string"
    /\ Len(result.dates) >= 3

-----------------------------------------------------------------------------
(* pages/Dashboard: the month and the year selector.                       *)

\* Date.prototype.setMonth(m) (m here 1..12): the local year, day-of-month
\* and clock time are kept, a day-of-month past the end of month m runs on
\* into the following month
setMonth(z, t, m) ==
    Only({ DateLocal(z, c.y, m, c.d, hour)
           : c \in {LocalCivil(z, t)}, hour \in {LocalHour(z, t)} })

\* Date.prototype.setFullYear(y): the local month, day-of-month and clock
\* time are kept, 29 February of a year without one runs on into 1 March
setFullYear(z, t, y) ==
    Only({ DateLocal(z, y, c.m, c.d, hour)
           : c \in {LocalCivil(z, t)}, hour \in {LocalHour(z, t)} })

\* getMonth() + 1 and getFullYear() of a Date
getMonth(z, t) == LocalCivil(z, t).m
getFullYear(z, t) == LocalCivil(z, t).y

\* the items of the month selector and of the year selector
months == 1..12
yearRange == 3
years(z, n) == (getFullYear(z, n) - yearRange)..(getFullYear(z, n) + yearRange)

SelectorTZOffsets == {-5, 0, 2}

\* days picked in the calendar before a selector is used
PickedDays == { Str(2024, 2, 29), Str(2025, 1, 30), Str(2025, 5, 15), Str(2025, 12, 31) }

\* the dashboard shows TODAY or a day picked in its calendar (onDateChange)
InitSelector ==
    /\ tz \in SelectorTZOffsets
    /\ now \in NowInstants
    /\ pc = "dashboard"
    /\ \/ selectedDate = DateObj(now) /\ selectedDay = Absent
       \/ \E s \in PickedDays :
              /\ selectedDate = DateObj(parseISO(tz, s))
              /\ selectedDay = selectedDate
    /\ startDate = Absent /\ frequency = FUndefined /\ endDate = Absent
    /\ result = NoResult
    /\ expenses = <<>> /\ incomes = <<>> /\ categories = <<>>
    /\ range = NoRange /\ scenario = NoScenario /\ report = NoReport
    /\ formatted = NoText
    /\ renders = 0
    /\ cursor = NoCursor
    /\ summary = NoSummary
    /\ dateRange = NoDateRange

\* onValueChange of the month selector with the item of month m
onMonthChange(m) ==
    /\ pc \in {"dashboard", "month", "year"}
    /\ selectedDate' = Only({ DateObj(newDate)
                              : newDate \in {setMonth(tz, selectedDate.t, m)} })
    /\ pc' = "month"
    /\ UNCHANGED <<tz, now, expandVars, reportVars, formatVars, memoVars, loopVars,
                   summary, dateRange, selectedDay>>

\* onValueChange of the year selector with the item of year y
onYearChange(y) ==
    /\ pc \in {"dashboard", "month", "year"}
    /\ selectedDate' = Only({ DateObj(newDate)
                              : newDate \in {setFullYear(tz, selectedDate.t, y)} })
    /\ pc' = "year"
    /\ UNCHANGED <<tz, now, expandVars, reportVars, formatVars, memoVars, loopVars,
                   summary, dateRange, selectedDay>>

SelectMonth == \E m \in months : onMonthChange(m)

SelectYear == \E y \in years(tz, now) : onYearChange(y)

NextSelector == SelectMonth \/ SelectYear

SpecSelector == InitSelector /\ [][NextSelector]_vars

\* C29: choosing month m in the month selector gives a selected date in month
\* m of the same year, whatever date was selected before; choosing year y in
\* the year selector gives a selected date in year y and the same month.
C29_SelectorsSetOneField ==
    [][/\ \A m \in months :
              onMonthChange(m) =>
                  /\ getMonth(tz, selectedDate'.t) = m
                  /\ getFullYear(tz, selectedDate'.t) = getFullYear(tz, selectedDate.t)
       /\ \A y \in years(tz, now) :
              onYearChange(y) =>
                  /\ getFullYear(tz, selectedDate'.t) = y
                  /\ getMonth(tz, selectedDate'.t) = getMonth(tz, selectedDate.t)]_vars

\* the selectors never change the field they are not about when the selected
\* day-of-month is at most 28
SelectorsUpTo28 ==
    [][getDate(tz, selectedDate.t) <= 28 =>
          /\ \A m \in months :
                 onMonthChange(m) =>
                     /\ getMonth(tz, selectedDate'.t) = m
                     /\ getFullYear(tz, selectedDate'.t) = getFullYear(tz, selectedDate.t)
          /\ \A y \in years(tz, now) :
                 onYearChange(y) =>
                     /\ getFullYear(tz, selectedDate'.t) = y
                     /\ getMonth(tz, selectedDate'.t) = getMonth(tz, selectedDate.t)]_vars

-----------------------------------------------------------------------------
(* components/Calendar and components/ui/calendar in range mode: the       *)
(* parent passes onRangeSelect and no onDateChange, and keeps the range it *)
(* is handed as the dateRange prop.                                        *)

CalendarComponents == {"Calendar", "ui/calendar"}

CalendarTZOffsets == {-5, 0, 2}

\* minimumDate = new Date('2025-01-01') of ui/calendar: midnight UTC
minimumDate == DateUTC(2025, 1, 1, 0)

\* the days of the buttons clicked: local midnights (eachDayOfInterval)
ClickDays(z) ==
    { DateObj(parseISO(z, s))
      : s \in { Str(2024, 12, 31), Str(2025, 1, 1), Str(2025, 1, 2), Str(2025, 1, 15),
                Str(2025, 1, 31), Str(2025, 2, 10) } }

\* a range that ends on the clicked day whatever the start
rangeEndClicked(day, start) == day

\* const endDate = day < dateRange.start ? dateRange.start : day
rangeEnd(day, start) == IF day.t < start.t THEN start ELSE day

\* the range handleClick passes to onRangeSelect
selectedRange(day, dr) ==
    IF dr.start.kind = "absent" \/ (dr.start.kind # "absent" /\ dr.end.kind # "absent")
    THEN [start |-> day, end |-> Absent]
    ELSE Only({ [start |-> dr.start, end |-> rangeEndDate]
                : rangeEndDate \in {rangeEnd(day, dr.start)} })

InitCalendar ==
    /\ tz \in CalendarTZOffsets
    /\ now = DateUTC(2025, 3, 15, 9)
    /\ pc = "calendar"
    /\ scenario \in { [component |-> c] : c \in CalendarComponents }
    /\ dateRange = NoDateRange
    /\ selectedDay = Absent
    /\ selectedDate = Absent
    /\ startDate = Absent /\ frequency = FUndefined /\ endDate = Absent
    /\ result = NoResult
    /\ expenses = <<>> /\ incomes = <<>> /\ categories = <<>>
    /\ range = NoRange /\ report = NoReport
    /\ formatted = NoText
    /\ renders = 0
    /\ cursor = NoCursor
    /\ summary = NoSummary

\* handleClick(day) with onRangeSelect and without onDateChange; the button of
\* a day before minimumDate is disabled in ui/calendar and its handler returns
handleClick(day) ==
    /\ pc \in {"calendar", "clicked"}
    /\ scenario.component \in CalendarComponents
    /\ scenario.component = "ui/calendar" => ~isBefore(day.t, minimumDate)
    /\ dateRange' = selectedRange(day, dateRange)
    /\ selectedDay' = day
    /\ pc' = "clicked"
    /\ UNCHANGED <<tz, now, expandVars, expenses, incomes, categories, range, scenario,
                   report, formatVars, memoVars, loopVars, summary, selectedDate>>

ClickDay == \E day \in ClickDays(tz) : handleClick(day)

NextCalendar == ClickDay

SpecCalendar == InitCalendar /\ [][NextCalendar]_vars

isComplete(dr) == dr.start.kind = "Date" /\ dr.end.kind = "Date"

\* C30: in range mode every click leaves a range that, when both ends are
\* set, has start <= end; a click with no start set or with a complete range
\* begins the range {start: clicked day, end: unset}; a click with only the
\* start set completes the range and keeps that start.
C30_RangeSelection ==
    [][\A day \in ClickDays(tz) :
          handleClick(day) =>
              /\ isComplete(dateRange') => dateRange'.start.t <= dateRange'.end.t
              /\ (dateRange.start.kind = "absent" \/ isComplete(dateRange)) =>
                     dateRange' = [start |-> day, end |-> Absent]
              /\ (dateRange.start.kind = "Date" /\ dateRange.end.kind = "absent") =>
                     /\ isComplete(dateRange')
                     /\ dateRange'.start = dateRange.start]_vars

\* a range completed by the click of a day earlier than its start
C30_Witness ==
    /\ pc = "clicked"
    /\ isComplete(dateRange)
    /\ selectedDay.t < dateRange.start.t

\* a range completed by the click of a later day
C30_WitnessLater ==
    /\ pc = "clicked"
    /\ isComplete(dateRange)
    /\ dateRange.start.t < dateRange.end.t
    /\ selectedDay = dateRange.end

====
